---- MODULE Spec2Model ----
(***************************************************************************)
(* State-machine model of AnycubicCloudDataUpdateCoordinator               *)
(* (custom_components/anycubic_ha_integration/coordinator.py): the MQTT    *)
(* connection policy, the idle tracker and the connection life cycle.      *)
(*                                                                         *)
(* Time is kept relative to the present: the clock reading int(time.time())*)
(* is the fixed value "now", and one second passing (Tick) moves every     *)
(* recorded timestamp one second into the past, until it is older than the *)
(* window it is compared with (older timestamps are told apart by no       *)
(* comparison of the code).  A recorded timestamp is never 0; Python's     *)
(* None is the value 0.  The *_SECONDS constants come from const.py; the   *)
(* model keeps their order (grace window < idle threshold) in coarse units.*)
(***************************************************************************)
EXTENDS Integers, FiniteSets, Sequences, TLC

\* ---------------------------------------------------------------- constants

\* Python None for the optional timestamps and the task handle.
None == 0

MQTT_ACTION_RESPONSE_ALIVE_SECONDS == 1

MQTT_IDLE_DISCONNECT_SECONDS == 2

MQTT_REFRESH_INTERVAL == 1

MAX_FAILED_UPDATES == 2

FAILED_UPDATE_DELAY == 2

DEFAULT_SCAN_INTERVAL == 2

\* The 10 of "int(time.time()) - DEFAULT_SCAN_INTERVAL + 10".
FORCE_UPDATE_OFFSET == 1

\* int(time.time()): the present, against which timestamps are read.
now == 8

\* Seconds for which a timestamp is still tracked after it has left its
\* window.
Horizon == 0

\* The managed devices, in the iteration order of self._anycubic_printers.
Printers == {1, 2}

\* AnycubicMQTTConnectMode.
Modes == {"Never_Connect", "Printing_Only", "Printing_Drying", "Device_Online", "Always"}

\* hass.state / hass.is_stopping: starting (not yet running), running, stopping.
HassStates == {"starting", "running", "stopping"}

\* The fields of AnycubicPrinter the policy reads.  is_drying stands for
\* primary_drying_status_is_drying or secondary_drying_status_is_drying.
PrinterState == [is_busy : BOOLEAN, printer_online : BOOLEAN, is_drying : BOOLEAN, print_in_progress : BOOLEAN]

\* The device states the life-cycle specification lets a device take:
\* offline, online and idle, printing.  (The policy specification draws
\* every combination of the four fields.)
LifecyclePrinterStates == { [is_busy |-> FALSE, printer_online |-> FALSE, is_drying |-> FALSE, print_in_progress |-> FALSE], [is_busy |-> FALSE, printer_online |-> TRUE, is_drying |-> FALSE, print_in_progress |-> FALSE], [is_busy |-> TRUE, printer_online |-> TRUE, is_drying |-> FALSE, print_in_progress |-> TRUE] }

\* The concurrent flows of the event loop.
Flows == {"poll", "action", "refresh", "unload"}

\* The flows that call _check_anycubic_mqtt_connection.
EvalFlows == {"poll", "action", "refresh"}

\* Positions of a flow inside _stop_anycubic_mqtt_connection.
StopPcs == {"unsub", "disconnect", "wait_disconnect"}

\* ---------------------------------------------------------------- state

VARIABLES
    mode,                      \* self._mqtt_connection_mode
    printers,                  \* self._anycubic_printers: device -> PrinterState
    hass_state,                \* hass.state, hass.is_stopping
    supports_mqtt_login,       \* anycubic_api.anycubic_auth.supports_mqtt_login
    mqtt_is_started,           \* anycubic_api.mqtt_is_started
    subscribed,                \* devices registered with the push client
    connect_jobs,              \* connect_mqtt jobs running in the executor
    mqtt_task,                 \* self._mqtt_task: "None", "pending" or "done"
    mqtt_manually_connected,   \* self._mqtt_manually_connected
    mqtt_idle_since,           \* self._mqtt_idle_since
    mqtt_last_action,          \* self._mqtt_last_action
    mqtt_last_refresh,         \* self._mqtt_last_refresh
    connect_check_lock,        \* holder of self._mqtt_connect_check_lock, or "free"
    refresh_lock,              \* holder of self._mqtt_refresh_lock, or "free"
    pc,                        \* flow -> position
    idx,                       \* flow -> next device of the unsubscribe loop
    stop_from,                 \* flow -> call site of the running stop sequence
    ret,                       \* last evaluated function and the value it returned
    hist,                      \* history of the idle tracker's observations
    act,                       \* the running (or last) user action handler call
    failed_updates,            \* self._failed_updates
    last_state_update,         \* self._last_state_update
    upd,                       \* the running (or last) call of get_anycubic_updates
    cooldown_until,            \* end of the cooldown last entered (history)
    unregistered_descriptors,  \* self._unregistered_descriptors: device -> platform -> descriptors
    caps,                      \* device -> capability snapshot read by the registration
    drying_option,             \* self.entry.options enables the drying presets
    reg,                       \* the platforms' listeners and the history of the deliveries
    mqtt_file_list_check_lock, \* self._mqtt_file_list_check_lock: the device of the recheck holding it, or 0
    scn                        \* history of a scenario: stop sequences begun, device transitions and evaluations seen

\* The state that only the handler, poll, registration and scenario
\* specifications change.
ext == << mqtt_file_list_check_lock, scn, act, failed_updates, last_state_update, upd, cooldown_until, unregistered_descriptors, caps, drying_option, reg >>

vars == << ext, mode, printers, hass_state, supports_mqtt_login, mqtt_is_started, subscribed, connect_jobs, mqtt_task, mqtt_manually_connected, mqtt_idle_since, mqtt_last_action, mqtt_last_refresh, connect_check_lock, refresh_lock, pc, idx, stop_from, ret, hist >>

\* ---------------------------------------------------------------- policy

_any_printers_are_printing ==
    \E p \in Printers : printers[p].is_busy

_any_printers_are_drying ==
    \E p \in Printers : printers[p].is_drying

\* Mutant: a busy device that does not report online is not counted.
AnyPrintersReportOnline ==
    \E p \in Printers : printers[p].printer_online

_any_printers_are_online ==
    \E p \in Printers : printers[p].printer_online \/ printers[p].is_busy

\* Mutant: a job in progress on a device that is not busy is ignored.
NoPrintersAreBusy ==
    \A p \in Printers : ~printers[p].is_busy

_no_printers_are_printing ==
    \A p \in Printers : ~printers[p].is_busy /\ ~printers[p].print_in_progress

\* Mutant: the action timer never counts as waiting.
LastActionNeverWaiting == FALSE

_check_mqtt_connection_last_action_waiting ==
    /\ mqtt_last_action # None
    /\ now < mqtt_last_action + MQTT_ACTION_RESPONSE_ALIVE_SECONDS

\* Mutant: Printing_Drying looks at printing only.
ModesActiveWithoutDrying ==
    IF _check_mqtt_connection_last_action_waiting THEN TRUE
    ELSE IF mode = "Printing_Only" /\ _any_printers_are_printing THEN TRUE
    ELSE IF mode = "Printing_Drying" /\ _any_printers_are_printing THEN TRUE
    ELSE IF mode = "Device_Online" /\ _any_printers_are_online THEN TRUE
    ELSE IF mode = "Always" THEN TRUE
    ELSE FALSE

_check_mqtt_connection_modes_active ==
    IF _check_mqtt_connection_last_action_waiting THEN TRUE
    ELSE IF mode = "Printing_Only" /\ _any_printers_are_printing THEN TRUE
    ELSE IF mode = "Printing_Drying" /\ (_any_printers_are_printing \/ _any_printers_are_drying) THEN TRUE
    ELSE IF mode = "Device_Online" /\ _any_printers_are_online THEN TRUE
    ELSE IF mode = "Always" THEN TRUE
    ELSE FALSE

\* Mutant: Printing_Drying is idle-eligible while a device is drying.
ModesInactiveWithoutDrying ==
    IF _check_mqtt_connection_last_action_waiting THEN FALSE
    ELSE IF mode = "Printing_Only" /\ _no_printers_are_printing THEN TRUE
    ELSE IF mode = "Printing_Drying" /\ _no_printers_are_printing THEN TRUE
    ELSE IF mode = "Device_Online" /\ ~_any_printers_are_online THEN TRUE
    ELSE FALSE

\* Mutant: the action timer is not consulted.
ModesInactiveWithoutActionTimer ==
    IF mode = "Printing_Only" /\ _no_printers_are_printing THEN TRUE
    ELSE IF mode = "Printing_Drying" /\ (_no_printers_are_printing /\ ~_any_printers_are_drying) THEN TRUE
    ELSE IF mode = "Device_Online" /\ ~_any_printers_are_online THEN TRUE
    ELSE FALSE

_check_mqtt_connection_modes_inactive ==
    IF _check_mqtt_connection_last_action_waiting THEN FALSE
    ELSE IF mode = "Printing_Only" /\ _no_printers_are_printing THEN TRUE
    ELSE IF mode = "Printing_Drying" /\ (_no_printers_are_printing /\ ~_any_printers_are_drying) THEN TRUE
    ELSE IF mode = "Device_Online" /\ ~_any_printers_are_online THEN TRUE
    ELSE IF mode = "Always" THEN FALSE
    ELSE FALSE

\* Mutant: the mode Never_Connect is not singled out.
ShouldStartWithoutNeverConnect ==
    IF ~supports_mqtt_login THEN FALSE
    ELSE /\ ~mqtt_is_started
         /\ hass_state # "stopping"
         /\ hass_state = "running"
         /\ (_check_mqtt_connection_modes_active \/ mqtt_manually_connected)

_anycubic_mqtt_connection_should_start ==
    IF mode = "Never_Connect" \/ ~supports_mqtt_login THEN FALSE
    ELSE /\ ~mqtt_is_started
         /\ hass_state # "stopping"
         /\ hass_state = "running"
         /\ (_check_mqtt_connection_modes_active \/ mqtt_manually_connected)

\* ---------------------------------------------------------------- idle tracker

\* _anycubic_mqtt_connection_is_idle returns a value and assigns
\* self._mqtt_idle_since: IsIdleSet is the timestamp after the first "if",
\* IsIdleFires the returned value, IsIdleSince the field after the call.
IsIdleSet ==
    IF mqtt_idle_since = None THEN now ELSE mqtt_idle_since

\* Mutant: the threshold counts as passed when it is just reached.
IdleThresholdReached ==
    now >= IsIdleSet + MQTT_IDLE_DISCONNECT_SECONDS

\* "if int(time.time()) > self._mqtt_idle_since + MQTT_IDLE_DISCONNECT_SECONDS".
IdleThresholdPassed ==
    now > IsIdleSet + MQTT_IDLE_DISCONNECT_SECONDS

IsIdleFires ==
    _check_mqtt_connection_modes_inactive /\ IdleThresholdPassed

\* Mutant: idle-since is kept when the tracker returns "close now".
IsIdleSinceKept ==
    IF _check_mqtt_connection_modes_inactive THEN IsIdleSet ELSE None

IsIdleSince ==
    IF _check_mqtt_connection_modes_inactive
    THEN IF IdleThresholdPassed THEN None ELSE IsIdleSet
    ELSE None

\* _anycubic_mqtt_connection_should_stop, with Python's short-circuit
\* evaluation: the idle tracker is called only when the channel is started
\* and the host is not stopping.
ShouldStopCallsIsIdle ==
    mqtt_is_started /\ hass_state # "stopping"

\* Mutant: the manual override does not hold back an idle stop.
ShouldStopIgnoringManual ==
    /\ mqtt_is_started
    /\ \/ hass_state = "stopping"
       \/ IsIdleFires

_anycubic_mqtt_connection_should_stop ==
    /\ mqtt_is_started
    /\ \/ hass_state = "stopping"
       \/ (IsIdleFires /\ ~mqtt_manually_connected)

ShouldStopIdleSince ==
    IF ShouldStopCallsIsIdle THEN IsIdleSince ELSE mqtt_idle_since

\* ---------------------------------------------------------------- life cycle

LastPrinter == CHOOSE p \in Printers : \A q \in Printers : q <= p

\* Where a flow continues once _check_anycubic_mqtt_connection returns:
\* _connect_mqtt_for_action_response goes on to mqtt_wait_for_connect, the
\* file-list recheck goes on to its own wait after its refresh, the other
\* callers are finished.
AfterCheckPc(f) == IF f = "action" THEN "wait_connect" ELSE IF f = "recheck" THEN "recheck_wait" ELSE "idle"

\* Mutant: the connect job is spawned whatever the task handle holds.
SpawnsTaskAlways == TRUE

\* "if self._mqtt_task is None" guarding the spawn of the connect job.
SpawnsTask == mqtt_task = "None"

\* Leaving "async with self._mqtt_connect_check_lock" and returning to the
\* caller; refresh_anycubic_mqtt_connection then leaves its own lock too.
CheckReturn(f) ==
    /\ pc' = [pc EXCEPT ![f] = AfterCheckPc(f)]
    /\ connect_check_lock' = "free"
    /\ refresh_lock' = IF refresh_lock = f THEN "free" ELSE refresh_lock
    /\ idx' = [idx EXCEPT ![f] = 0]
    /\ stop_from' = [stop_from EXCEPT ![f] = "none"]

\* Entry of _stop_anycubic_mqtt_connection, up to its first await.
EnterStop(f, from) ==
    /\ pc' = [pc EXCEPT ![f] = "unsub"]
    /\ idx' = [idx EXCEPT ![f] = 1]
    /\ stop_from' = [stop_from EXCEPT ![f] = from]

\* The state of the channel as the controller sees it: the client is
\* started; or a connect job is spawned and the client is not up yet; or
\* the job has ended without the client coming up; or there is no job.
Phase ==
    IF mqtt_is_started THEN "open"
    ELSE IF mqtt_task = "pending" THEN "starting"
    ELSE IF mqtt_task = "done" THEN "failed"
    ELSE "closed"

\* The body of "async with self._mqtt_connect_check_lock" up to its first
\* await: the start branch runs to the end, the stop branch enters the stop
\* sequence holding the lock.  ret records the phase the evaluation found
\* and whether it called mqtt_add_subscribed_printer.
Decide(f) ==
    /\ connect_check_lock = "free"
    /\ ret' = [fn |-> Phase, val |-> _anycubic_mqtt_connection_should_start]
    /\ IF _anycubic_mqtt_connection_should_start
       THEN /\ subscribed' = Printers
            /\ mqtt_task' = IF SpawnsTask THEN "pending" ELSE mqtt_task
            /\ connect_jobs' = IF SpawnsTask THEN connect_jobs + 1 ELSE connect_jobs
            /\ mqtt_idle_since' = mqtt_idle_since
            /\ CheckReturn(f)
       ELSE /\ mqtt_idle_since' = ShouldStopIdleSince
            /\ UNCHANGED << subscribed, mqtt_task, connect_jobs >>
            /\ IF _anycubic_mqtt_connection_should_stop
               THEN /\ EnterStop(f, "check")
                    /\ connect_check_lock' = f
                    /\ refresh_lock' = refresh_lock
               ELSE CheckReturn(f)

\* _check_anycubic_mqtt_connection(refreshing) from its call to its first
\* suspension: skipped while a refresh holds its lock, queued behind the
\* holder of the connection-evaluate lock, or decided at once.
Check(f, refreshing) ==
    IF ~refreshing /\ refresh_lock # "free"
    THEN /\ pc' = [pc EXCEPT ![f] = AfterCheckPc(f)]
         /\ UNCHANGED << idx, stop_from, connect_check_lock, refresh_lock, subscribed, mqtt_task, connect_jobs, mqtt_idle_since, ret >>
    ELSE IF connect_check_lock # "free"
    THEN /\ pc' = [pc EXCEPT ![f] = "wait_check"]
         /\ UNCHANGED << idx, stop_from, connect_check_lock, refresh_lock, subscribed, mqtt_task, connect_jobs, mqtt_idle_since, ret >>
    ELSE Decide(f)

\* A flow queued on the connection-evaluate lock acquires it.
WaitCheck(f) ==
    /\ pc[f] = "wait_check"
    /\ Decide(f)
    /\ UNCHANGED << ext, hist, mode, printers, hass_state, supports_mqtt_login, mqtt_is_started, mqtt_manually_connected, mqtt_last_action, mqtt_last_refresh >>

\* get_anycubic_updates starts and awaits the poll API.
PollTick ==
    /\ pc["poll"] = "idle"
    /\ pc' = [pc EXCEPT !["poll"] = "updating"]
    /\ UNCHANGED << ext, hist, mode, printers, hass_state, supports_mqtt_login, mqtt_is_started, subscribed, connect_jobs, mqtt_task, mqtt_manually_connected, mqtt_idle_since, mqtt_last_action, mqtt_last_refresh, connect_check_lock, refresh_lock, idx, stop_from, ret >>

\* The device model changes: a poll result is applied, or (with the channel
\* started) a push message is.
FleetChange(p, s) ==
    /\ pc["poll"] = "updating" \/ mqtt_is_started
    /\ s # printers[p]
    /\ printers' = [printers EXCEPT ![p] = s]
    /\ UNCHANGED << ext, hist, mode, hass_state, supports_mqtt_login, mqtt_is_started, subscribed, connect_jobs, mqtt_task, mqtt_manually_connected, mqtt_idle_since, mqtt_last_action, mqtt_last_refresh, connect_check_lock, refresh_lock, pc, idx, stop_from, ret >>

\* get_anycubic_updates after the last successful poll: the evaluation.
PollUpdated ==
    /\ pc["poll"] = "updating"
    /\ Check("poll", FALSE)
    /\ UNCHANGED << ext, hist, mode, printers, hass_state, supports_mqtt_login, mqtt_is_started, mqtt_manually_connected, mqtt_last_action, mqtt_last_refresh >>

\* _connect_mqtt_for_action_response: the action timer is set; the
\* evaluation follows with no suspension in between (ActionCheck).
ActionBegin ==
    /\ pc["action"] = "idle"
    /\ mqtt_last_action' = now
    /\ pc' = [pc EXCEPT !["action"] = "check"]
    /\ UNCHANGED << ext, hist, mode, printers, hass_state, supports_mqtt_login, mqtt_is_started, subscribed, connect_jobs, mqtt_task, mqtt_manually_connected, mqtt_idle_since, mqtt_last_refresh, connect_check_lock, refresh_lock, idx, stop_from, ret >>

ActionCheck ==
    /\ pc["action"] = "check"
    /\ Check("action", FALSE)
    /\ UNCHANGED << ext, hist, mode, printers, hass_state, supports_mqtt_login, mqtt_is_started, mqtt_manually_connected, mqtt_last_action, mqtt_last_refresh >>

\* mqtt_wait_for_connect returns (connected or timed out).
ActionWaitDone ==
    /\ pc["action"] = "wait_connect"
    /\ pc' = [pc EXCEPT !["action"] = "idle"]
    /\ UNCHANGED << ext, hist, mode, printers, hass_state, supports_mqtt_login, mqtt_is_started, subscribed, connect_jobs, mqtt_task, mqtt_manually_connected, mqtt_idle_since, mqtt_last_action, mqtt_last_refresh, connect_check_lock, refresh_lock, idx, stop_from, ret >>

\* One await of the unsubscribe loop returns normally.
StopUnsubOk(f) ==
    /\ pc[f] = "unsub"
    /\ subscribed' = subscribed \ {idx[f]}
    /\ IF idx[f] = LastPrinter
       THEN /\ pc' = [pc EXCEPT ![f] = "disconnect"]
            /\ idx' = [idx EXCEPT ![f] = 0]
       ELSE /\ pc' = pc
            /\ idx' = [idx EXCEPT ![f] = idx[f] + 1]
    /\ UNCHANGED << ext, hist, mode, printers, hass_state, supports_mqtt_login, mqtt_is_started, connect_jobs, mqtt_task, mqtt_manually_connected, mqtt_idle_since, mqtt_last_action, mqtt_last_refresh, connect_check_lock, refresh_lock, stop_from, ret >>

\* Mutant: the exception leaves the flow with its locks still held.
StopUnsubFailHoldsLocks(f) ==
    /\ pc[f] = "unsub"
    /\ pc' = [pc EXCEPT ![f] = "idle"]
    /\ idx' = [idx EXCEPT ![f] = 0]
    /\ stop_from' = [stop_from EXCEPT ![f] = "none"]
    /\ UNCHANGED << ext, hist, mode, printers, hass_state, supports_mqtt_login, mqtt_is_started, subscribed, connect_jobs, mqtt_task, mqtt_manually_connected, mqtt_idle_since, mqtt_last_action, mqtt_last_refresh, connect_check_lock, refresh_lock, ret >>

\* One await of the unsubscribe loop raises: nothing in the stop sequence or
\* in its callers' lock scopes catches it, so the flow leaves every "async
\* with" it is in and the exception reaches the flow's caller.
StopUnsubFail(f) ==
    /\ pc[f] = "unsub"
    /\ pc' = [pc EXCEPT ![f] = "idle"]
    /\ idx' = [idx EXCEPT ![f] = 0]
    /\ stop_from' = [stop_from EXCEPT ![f] = "none"]
    /\ connect_check_lock' = IF connect_check_lock = f THEN "free" ELSE connect_check_lock
    /\ refresh_lock' = IF refresh_lock = f THEN "free" ELSE refresh_lock
    /\ UNCHANGED << ext, hist, mode, printers, hass_state, supports_mqtt_login, mqtt_is_started, subscribed, connect_jobs, mqtt_task, mqtt_manually_connected, mqtt_idle_since, mqtt_last_action, mqtt_last_refresh, ret >>

\* disconnect_mqtt runs in the executor: a started client is stopped and
\* its connect job returns.
StopDisconnect(f) ==
    /\ pc[f] = "disconnect"
    /\ pc' = [pc EXCEPT ![f] = "wait_disconnect"]
    /\ mqtt_is_started' = FALSE
    /\ mqtt_task' = IF mqtt_is_started /\ mqtt_task = "pending" THEN "done" ELSE mqtt_task
    /\ connect_jobs' = IF mqtt_is_started /\ mqtt_task = "pending" THEN connect_jobs - 1 ELSE connect_jobs
    /\ UNCHANGED << ext, hist, mode, printers, hass_state, supports_mqtt_login, subscribed, mqtt_manually_connected, mqtt_idle_since, mqtt_last_action, mqtt_last_refresh, connect_check_lock, refresh_lock, idx, stop_from, ret >>

\* mqtt_wait_for_disconnect returns; an unfinished task is cancelled, the
\* handle is cleared, and the stop sequence returns to its call site.
StopFinish(f) ==
    /\ pc[f] = "wait_disconnect"
    /\ mqtt_task' = "None"
    /\ connect_jobs' = IF mqtt_task = "pending" THEN connect_jobs - 1 ELSE connect_jobs
    /\ IF stop_from[f] = "check"
       THEN CheckReturn(f)
       ELSE /\ pc' = [pc EXCEPT ![f] = IF stop_from[f] = "refresh" THEN "sleep" ELSE "idle"]
            /\ stop_from' = [stop_from EXCEPT ![f] = "none"]
            /\ UNCHANGED << idx, connect_check_lock, refresh_lock >>
    /\ UNCHANGED << ext, hist, mode, printers, hass_state, supports_mqtt_login, mqtt_is_started, subscribed, mqtt_manually_connected, mqtt_idle_since, mqtt_last_action, mqtt_last_refresh, ret >>

\* refresh_anycubic_mqtt_connection up to its first await: it returns at
\* once inside the refresh cooldown, while the connection-evaluate lock is
\* held, or with the channel not started; otherwise it takes the refresh
\* lock, records the refresh time and enters the stop sequence.
RefreshRuns ==
    /\ ~(mqtt_last_refresh # None /\ now < mqtt_last_refresh + MQTT_REFRESH_INTERVAL)
    /\ connect_check_lock = "free"
    /\ mqtt_is_started

RefreshBegin ==
    /\ pc["refresh"] = "idle"
    /\ IF RefreshRuns
       THEN /\ refresh_lock = "free"
            /\ refresh_lock' = "refresh"
            /\ mqtt_last_refresh' = now
            /\ EnterStop("refresh", "refresh")
       ELSE UNCHANGED << refresh_lock, mqtt_last_refresh, pc, idx, stop_from >>
    /\ UNCHANGED << ext, hist, mode, printers, hass_state, supports_mqtt_login, mqtt_is_started, subscribed, connect_jobs, mqtt_task, mqtt_manually_connected, mqtt_idle_since, mqtt_last_action, connect_check_lock, ret >>

\* asyncio.sleep(2) returns and the refresh re-evaluates, holding its lock.
RefreshRecheck ==
    /\ pc["refresh"] = "sleep"
    /\ Check("refresh", TRUE)
    /\ UNCHANGED << ext, hist, mode, printers, hass_state, supports_mqtt_login, mqtt_is_started, mqtt_manually_connected, mqtt_last_action, mqtt_last_refresh >>

\* stop_anycubic_mqtt_connection_if_started (called on unload).
UnloadBegin ==
    /\ pc["unload"] = "idle"
    /\ mqtt_is_started
    /\ EnterStop("unload", "unload")
    /\ UNCHANGED << ext, hist, mode, printers, hass_state, supports_mqtt_login, mqtt_is_started, subscribed, connect_jobs, mqtt_task, mqtt_manually_connected, mqtt_idle_since, mqtt_last_action, mqtt_last_refresh, connect_check_lock, refresh_lock, ret >>

\* switch_on_event / switch_off_event for manual_mqtt_connection_enabled:
\* the flag is assigned and force_state_update runs get_anycubic_updates.
SwitchManual(on) ==
    /\ mqtt_manually_connected' = on
    /\ pc' = IF pc["poll"] = "idle" THEN [pc EXCEPT !["poll"] = "updating"] ELSE pc
    /\ UNCHANGED << ext, hist, mode, printers, hass_state, supports_mqtt_login, mqtt_is_started, subscribed, connect_jobs, mqtt_task, mqtt_idle_since, mqtt_last_action, mqtt_last_refresh, connect_check_lock, refresh_lock, idx, stop_from, ret >>

\* The connect job brings the client up.
ConnectTaskConnects ==
    /\ mqtt_task = "pending"
    /\ connect_jobs > 0
    /\ ~mqtt_is_started
    /\ mqtt_is_started' = TRUE
    /\ UNCHANGED << ext, hist, mode, printers, hass_state, supports_mqtt_login, subscribed, connect_jobs, mqtt_task, mqtt_manually_connected, mqtt_idle_since, mqtt_last_action, mqtt_last_refresh, connect_check_lock, refresh_lock, pc, idx, stop_from, ret >>

\* The connect job ends without the client having come up.
ConnectTaskFails ==
    /\ mqtt_task = "pending"
    /\ connect_jobs > 0
    /\ ~mqtt_is_started
    /\ mqtt_task' = "done"
    /\ connect_jobs' = connect_jobs - 1
    /\ UNCHANGED << ext, hist, mode, printers, hass_state, supports_mqtt_login, mqtt_is_started, subscribed, mqtt_manually_connected, mqtt_idle_since, mqtt_last_action, mqtt_last_refresh, connect_check_lock, refresh_lock, pc, idx, stop_from, ret >>

\* The host finishes starting, and later begins to stop.
HassStarted ==
    /\ hass_state = "starting"
    /\ hass_state' = "running"
    /\ UNCHANGED << ext, hist, mode, printers, supports_mqtt_login, mqtt_is_started, subscribed, connect_jobs, mqtt_task, mqtt_manually_connected, mqtt_idle_since, mqtt_last_action, mqtt_last_refresh, connect_check_lock, refresh_lock, pc, idx, stop_from, ret >>

HassStopping ==
    /\ hass_state = "running"
    /\ hass_state' = "stopping"
    /\ UNCHANGED << ext, hist, mode, printers, supports_mqtt_login, mqtt_is_started, subscribed, connect_jobs, mqtt_task, mqtt_manually_connected, mqtt_idle_since, mqtt_last_action, mqtt_last_refresh, connect_check_lock, refresh_lock, pc, idx, stop_from, ret >>

\* A timestamp one second later: one second further in the past, down to
\* the age at which it has left the window it is compared with.
Aged(t, window) ==
    IF t # None /\ t > now - window - Horizon THEN t - 1 ELSE t

\* One second passes.
Tick ==
    /\ mqtt_last_action' = Aged(mqtt_last_action, MQTT_ACTION_RESPONSE_ALIVE_SECONDS)
    /\ mqtt_idle_since' = Aged(mqtt_idle_since, MQTT_IDLE_DISCONNECT_SECONDS + 1)
    /\ mqtt_last_refresh' = Aged(mqtt_last_refresh, MQTT_REFRESH_INTERVAL)
    /\ hist' = [hist EXCEPT !.first = Aged(@, MQTT_IDLE_DISCONNECT_SECONDS + 1), !.since = Aged(@, MQTT_IDLE_DISCONNECT_SECONDS + 1), !.prev = Aged(@, MQTT_IDLE_DISCONNECT_SECONDS)]
    /\ last_state_update' = Aged(last_state_update, DEFAULT_SCAN_INTERVAL + 1)
    /\ cooldown_until' = Aged(cooldown_until, 0)
    /\ UNCHANGED << mqtt_file_list_check_lock, scn, act, failed_updates, upd, unregistered_descriptors, caps, drying_option, reg, mode, printers, hass_state, supports_mqtt_login, mqtt_is_started, subscribed, connect_jobs, mqtt_task, mqtt_manually_connected, connect_check_lock, refresh_lock, pc, idx, stop_from, ret >>

\* ---------------------------------------------------------------- life-cycle specification

AllOffline == [p \in Printers |-> [is_busy |-> FALSE, printer_online |-> FALSE, is_drying |-> FALSE, print_in_progress |-> FALSE]]

NoRet == [fn |-> "none", val |-> FALSE]

\* No eligible observation so far.
NoHist == [first |-> None, since |-> None, prev |-> None, close |-> TRUE, fired |-> FALSE, fires |-> 0]

\* No handler has been called.
NoAct == [handler |-> "none", branch |-> "none", waited |-> "none", commanded |-> FALSE, refreshed |-> FALSE, raised |-> "none"]

\* get_anycubic_updates has not been called.
NoUpd == [caller |-> "none", stage |-> "idle", tokens |-> "none", polled |-> 0, evaluated |-> FALSE, raised |-> "none", failed_before |-> 0]

\* The platforms that call add_entities_for_seen_printers.
Platforms == {"sensor", "button"}

\* The descriptors a platform may offer, in list order.
Descriptors == 1 .. 6

\* The capability snapshot of a device: status attributes present,
\* material type, ACE supported, number of connected ACE units.
Snapshot(known, material, ace, units) ==
    [status_known |-> known, material_type |-> material, supports_ace |-> ace, connected_ace_units |-> units]

\* Device 1 is a filament printer that supports the ACE, with 0 to 2 units
\* connected; device 2 is a resin printer or a filament printer without
\* ACE support. Either can be without status attributes.
CapabilitySnapshots(p) ==
    IF p = 1
    THEN {Snapshot(FALSE, "FDM", TRUE, 0)} \cup {Snapshot(TRUE, "FDM", TRUE, n) : n \in 0 .. 2}
    ELSE {Snapshot(FALSE, "LCD", FALSE, 0), Snapshot(TRUE, "LCD", FALSE, 0), Snapshot(TRUE, "FDM", FALSE, 0)}

\* No device has reported its status yet.
NoCaps == [p \in Printers |-> Snapshot(FALSE, IF p = 1 THEN "FDM" ELSE "LCD", p = 1, 0)]

\* Nothing registered, nothing delivered:
\* listening = platforms whose listener is registered, failed = platforms
\* whose setup raised, delivered = <<device, platform, descriptor>> passed
\* to async_add_entities, twice = those passed more than once, fresh =
\* platforms evaluated since the capabilities last changed, last = the
\* last evaluation.
NoReg == [listening |-> {}, failed |-> {}, delivered |-> {}, twice |-> {}, fresh |-> {}, last |-> [platform |-> "none", rerun |-> FALSE, promoted |-> 0, changed |-> FALSE, raised |-> FALSE]]

\* The empty dict.
EmptyMap == [x \in {} |-> {}]

\* No scenario has begun.
NoScn == [stops |-> 0, seq |-> 0, idle_eval |-> FALSE, stale |-> FALSE, dropped |-> << 0, 0 >>, force |-> "idle", forced |-> None]

ExtInit ==
    /\ act = NoAct
    /\ scn = NoScn
    /\ mqtt_file_list_check_lock = 0
    /\ unregistered_descriptors = EmptyMap
    /\ caps = NoCaps
    /\ drying_option = FALSE
    /\ reg = NoReg
    /\ failed_updates = 0
    /\ last_state_update = None
    /\ upd = NoUpd
    /\ cooldown_until = None

Init ==
    /\ mode \in Modes
    /\ printers = AllOffline
    /\ hass_state = "starting"
    /\ supports_mqtt_login \in BOOLEAN
    /\ mqtt_is_started = FALSE
    /\ subscribed = {}
    /\ connect_jobs = 0
    /\ mqtt_task = "None"
    /\ mqtt_manually_connected = FALSE
    /\ mqtt_idle_since = None
    /\ mqtt_last_action = None
    /\ mqtt_last_refresh = None
    /\ connect_check_lock = "free"
    /\ refresh_lock = "free"
    /\ pc = [f \in Flows |-> "idle"]
    /\ idx = [f \in Flows |-> 0]
    /\ stop_from = [f \in Flows |-> "none"]
    /\ ret = NoRet
    /\ hist = NoHist
    /\ ExtInit

\* No flow is between two statements that have no suspension between them.
Yielded == pc["action"] # "check"

Next ==
    \/ ActionCheck
    \/ Yielded /\ PollTick
    \/ Yielded /\ PollUpdated
    \/ Yielded /\ ActionBegin
    \/ Yielded /\ ActionWaitDone
    \/ Yielded /\ RefreshBegin
    \/ Yielded /\ RefreshRecheck
    \/ Yielded /\ \E f \in EvalFlows : WaitCheck(f)
    \/ Yielded /\ \E f \in Flows : StopUnsubOk(f)
    \/ Yielded /\ \E f \in Flows : StopUnsubFail(f)
    \/ Yielded /\ \E f \in Flows : StopDisconnect(f)
    \/ Yielded /\ \E f \in Flows : StopFinish(f)
    \/ Yielded /\ \E p \in Printers, s \in LifecyclePrinterStates : FleetChange(p, s)
    \/ Yielded /\ \E on \in BOOLEAN : SwitchManual(on)
    \/ Yielded /\ ConnectTaskConnects
    \/ Yielded /\ ConnectTaskFails
    \/ Yielded /\ HassStarted
    \/ Yielded /\ HassStopping
    \/ Yielded /\ Tick

Spec == Init /\ [][Next]_vars

\* ---------------------------------------------------------------- policy specification

\* The timestamps a field can hold that its comparison tells apart.
Stamps(window) == {None} \cup ((now - window - Horizon) .. now)

\* Every input of the policy functions: mode, fleet, host state, login
\* support, channel state, manual override, action timer and idle-since.
PolicyInit ==
    /\ mode \in Modes
    /\ printers \in [Printers -> PrinterState]
    /\ hass_state \in HassStates
    /\ supports_mqtt_login \in BOOLEAN
    /\ mqtt_is_started \in BOOLEAN
    /\ mqtt_manually_connected \in BOOLEAN
    /\ mqtt_last_action \in Stamps(MQTT_ACTION_RESPONSE_ALIVE_SECONDS)
    /\ mqtt_idle_since \in Stamps(MQTT_IDLE_DISCONNECT_SECONDS + 1)
    /\ subscribed = {}
    /\ connect_jobs = 0
    /\ mqtt_task = "None"
    /\ mqtt_last_refresh = None
    /\ connect_check_lock = "free"
    /\ refresh_lock = "free"
    /\ pc = [f \in Flows |-> "idle"]
    /\ idx = [f \in Flows |-> 0]
    /\ stop_from = [f \in Flows |-> "none"]
    /\ ret = NoRet
    /\ hist = NoHist
    /\ ExtInit

CallShouldStart ==
    /\ ret' = [fn |-> "should_start", val |-> _anycubic_mqtt_connection_should_start]
    /\ UNCHANGED << ext, hist, mode, printers, hass_state, supports_mqtt_login, mqtt_is_started, subscribed, connect_jobs, mqtt_task, mqtt_manually_connected, mqtt_idle_since, mqtt_last_action, mqtt_last_refresh, connect_check_lock, refresh_lock, pc, idx, stop_from >>

CallShouldStop ==
    /\ ret' = [fn |-> "should_stop", val |-> _anycubic_mqtt_connection_should_stop]
    /\ mqtt_idle_since' = ShouldStopIdleSince
    /\ UNCHANGED << ext, hist, mode, printers, hass_state, supports_mqtt_login, mqtt_is_started, subscribed, connect_jobs, mqtt_task, mqtt_manually_connected, mqtt_last_action, mqtt_last_refresh, connect_check_lock, refresh_lock, pc, idx, stop_from >>

CallModesActive ==
    /\ ret' = [fn |-> "modes_active", val |-> _check_mqtt_connection_modes_active]
    /\ UNCHANGED << ext, hist, mode, printers, hass_state, supports_mqtt_login, mqtt_is_started, subscribed, connect_jobs, mqtt_task, mqtt_manually_connected, mqtt_idle_since, mqtt_last_action, mqtt_last_refresh, connect_check_lock, refresh_lock, pc, idx, stop_from >>

CallModesInactive ==
    /\ ret' = [fn |-> "modes_inactive", val |-> _check_mqtt_connection_modes_inactive]
    /\ UNCHANGED << ext, hist, mode, printers, hass_state, supports_mqtt_login, mqtt_is_started, subscribed, connect_jobs, mqtt_task, mqtt_manually_connected, mqtt_idle_since, mqtt_last_action, mqtt_last_refresh, connect_check_lock, refresh_lock, pc, idx, stop_from >>

CallIsIdle ==
    /\ ret' = [fn |-> "is_idle", val |-> IsIdleFires]
    /\ mqtt_idle_since' = IsIdleSince
    /\ UNCHANGED << ext, hist, mode, printers, hass_state, supports_mqtt_login, mqtt_is_started, subscribed, connect_jobs, mqtt_task, mqtt_manually_connected, mqtt_last_action, mqtt_last_refresh, connect_check_lock, refresh_lock, pc, idx, stop_from >>

PolicyNext ==
    \/ CallShouldStart
    \/ CallShouldStop
    \/ CallModesActive
    \/ CallModesInactive
    \/ CallIsIdle

PolicySpec == PolicyInit /\ [][PolicyNext]_vars

\* ---------------------------------------------------------------- idle-tracker specification

\* The history of the observations of the current uninterrupted run of
\* idle-eligible observations, after one more observation that returned
\* fire: first = time of the run's first observation, since = time of the
\* first observation after the last "close now" (or of the run), prev = time
\* of this observation, close = every two consecutive observations of the
\* run were less than the idle threshold apart, fired = this observation
\* returned "close now", fires = how often the run returned it (2 = twice
\* or more).  A non-eligible observation ends the run.
Observed(fire) ==
    IF ~_check_mqtt_connection_modes_inactive THEN NoHist
    ELSE [first |-> IF hist.first = None THEN now ELSE hist.first,
          since |-> IF hist.since = None \/ hist.fired THEN now ELSE hist.since,
          prev |-> now,
          close |-> hist.close /\ (hist.prev = None \/ now - hist.prev < MQTT_IDLE_DISCONNECT_SECONDS),
          fired |-> fire,
          fires |-> IF fire /\ hist.fires < 2 THEN hist.fires + 1 ELSE hist.fires]

IdleInit ==
    /\ mode \in Modes
    /\ printers = AllOffline
    /\ hass_state \in {"running", "stopping"}
    /\ supports_mqtt_login = TRUE
    /\ mqtt_is_started \in BOOLEAN
    /\ mqtt_manually_connected \in BOOLEAN
    /\ mqtt_last_action = None
    /\ mqtt_idle_since = None
    /\ subscribed = {}
    /\ connect_jobs = 0
    /\ mqtt_task = "None"
    /\ mqtt_last_refresh = None
    /\ connect_check_lock = "free"
    /\ refresh_lock = "free"
    /\ pc = [f \in Flows |-> "idle"]
    /\ idx = [f \in Flows |-> 0]
    /\ stop_from = [f \in Flows |-> "none"]
    /\ ret = NoRet
    /\ hist = NoHist
    /\ ExtInit

\* _anycubic_mqtt_connection_is_idle is called.
ObserveIsIdle ==
    /\ ret' = [fn |-> "is_idle", val |-> IsIdleFires]
    /\ mqtt_idle_since' = IsIdleSince
    /\ hist' = Observed(IsIdleFires)
    /\ UNCHANGED << ext, mode, printers, hass_state, supports_mqtt_login, mqtt_is_started, subscribed, connect_jobs, mqtt_task, mqtt_manually_connected, mqtt_last_action, mqtt_last_refresh, connect_check_lock, refresh_lock, pc, idx, stop_from >>

\* _anycubic_mqtt_connection_should_stop is called; it observes when it
\* calls the idle tracker.
ObserveShouldStop ==
    /\ ret' = [fn |-> "should_stop", val |-> _anycubic_mqtt_connection_should_stop]
    /\ mqtt_idle_since' = ShouldStopIdleSince
    /\ hist' = IF ShouldStopCallsIsIdle THEN Observed(IsIdleFires) ELSE hist
    /\ UNCHANGED << ext, mode, printers, hass_state, supports_mqtt_login, mqtt_is_started, subscribed, connect_jobs, mqtt_task, mqtt_manually_connected, mqtt_last_action, mqtt_last_refresh, connect_check_lock, refresh_lock, pc, idx, stop_from >>

\* The device model changes.
IdleFleetChange(p, s) ==
    /\ s # printers[p]
    /\ printers' = [printers EXCEPT ![p] = s]
    /\ UNCHANGED << ext, hist, mode, hass_state, supports_mqtt_login, mqtt_is_started, subscribed, connect_jobs, mqtt_task, mqtt_manually_connected, mqtt_idle_since, mqtt_last_action, mqtt_last_refresh, connect_check_lock, refresh_lock, pc, idx, stop_from, ret >>

\* A user action sets the action timer.
IdleUserAction ==
    /\ mqtt_last_action' = now
    /\ UNCHANGED << ext, hist, mode, printers, hass_state, supports_mqtt_login, mqtt_is_started, subscribed, connect_jobs, mqtt_task, mqtt_manually_connected, mqtt_idle_since, mqtt_last_refresh, connect_check_lock, refresh_lock, pc, idx, stop_from, ret >>

IdleNext ==
    \/ ObserveIsIdle
    \/ ObserveShouldStop
    \/ \E p \in Printers, s \in LifecyclePrinterStates : IdleFleetChange(p, s)
    \/ IdleUserAction
    \/ Tick

IdleSpec == IdleInit /\ [][IdleNext]_vars

\* ---------------------------------------------------------------- handler specification

\* The user action handlers.
Handlers == {"button_press_event", "fw_update_event", "switch_on_event", "switch_off_event"}

\* What the handler does with its event key: "channel" is a key whose
\* branch calls _connect_mqtt_for_action_response and then commands the
\* device; "manual" is manual_mqtt_connection_enabled; "return" is a key
\* with no branch, an unknown device or a drying preset that is not
\* configured.  (The key refresh_mqtt_connection is the refresh flow.)
HandlerBranches(h) ==
    IF h \in {"switch_on_event", "switch_off_event"} THEN {"channel", "manual", "return"}
    ELSE {"channel", "return"}

\* A handler is called with an event key: up to its first await.
HandlerBegin(h, b) ==
    /\ pc["action"] = "idle"
    /\ act' = [NoAct EXCEPT !.handler = h, !.branch = b]
    /\ mqtt_last_action' = IF b = "channel" THEN now ELSE mqtt_last_action
    /\ mqtt_manually_connected' = IF b = "manual" THEN (h = "switch_on_event") ELSE mqtt_manually_connected
    /\ pc' = [pc EXCEPT !["action"] = CASE b = "channel" -> "check" [] b = "manual" -> "force_update" [] OTHER -> "idle"]
    /\ UNCHANGED << mqtt_file_list_check_lock, scn, failed_updates, last_state_update, upd, cooldown_until, unregistered_descriptors, caps, drying_option, reg, hist, mode, printers, hass_state, supports_mqtt_login, mqtt_is_started, subscribed, connect_jobs, mqtt_task, mqtt_idle_since, mqtt_last_refresh, connect_check_lock, refresh_lock, idx, stop_from, ret >>

\* mqtt_wait_for_connect returns True: the handler goes on to the command.
HandlerWaitOk ==
    /\ pc["action"] = "wait_connect"
    /\ mqtt_is_started
    /\ act' = [act EXCEPT !.waited = "ok"]
    /\ pc' = [pc EXCEPT !["action"] = "command"]
    /\ UNCHANGED << mqtt_file_list_check_lock, scn, failed_updates, last_state_update, upd, cooldown_until, unregistered_descriptors, caps, drying_option, reg, hist, mode, printers, hass_state, supports_mqtt_login, mqtt_is_started, subscribed, connect_jobs, mqtt_task, mqtt_manually_connected, mqtt_idle_since, mqtt_last_action, mqtt_last_refresh, connect_check_lock, refresh_lock, idx, stop_from, ret >>

\* Mutant: the timeout is only logged and the handler goes on.
HandlerWaitFailContinues ==
    /\ pc["action"] = "wait_connect"
    /\ ~mqtt_is_started
    /\ act' = [act EXCEPT !.waited = "fail"]
    /\ pc' = [pc EXCEPT !["action"] = "command"]
    /\ UNCHANGED << mqtt_file_list_check_lock, scn, failed_updates, last_state_update, upd, cooldown_until, unregistered_descriptors, caps, drying_option, reg, hist, mode, printers, hass_state, supports_mqtt_login, mqtt_is_started, subscribed, connect_jobs, mqtt_task, mqtt_manually_connected, mqtt_idle_since, mqtt_last_action, mqtt_last_refresh, connect_check_lock, refresh_lock, idx, stop_from, ret >>

\* mqtt_wait_for_connect returns False: HomeAssistantError is raised, which
\* no handler catches.
HandlerWaitFail ==
    /\ pc["action"] = "wait_connect"
    /\ ~mqtt_is_started
    /\ act' = [act EXCEPT !.waited = "fail", !.raised = "timeout"]
    /\ pc' = [pc EXCEPT !["action"] = "idle"]
    /\ UNCHANGED << mqtt_file_list_check_lock, scn, failed_updates, last_state_update, upd, cooldown_until, unregistered_descriptors, caps, drying_option, reg, hist, mode, printers, hass_state, supports_mqtt_login, mqtt_is_started, subscribed, connect_jobs, mqtt_task, mqtt_manually_connected, mqtt_idle_since, mqtt_last_action, mqtt_last_refresh, connect_check_lock, refresh_lock, idx, stop_from, ret >>

\* The device command is issued and returns.
HandlerCommandOk ==
    /\ pc["action"] = "command"
    /\ act' = [act EXCEPT !.commanded = TRUE]
    /\ pc' = [pc EXCEPT !["action"] = "force_update"]
    /\ UNCHANGED << mqtt_file_list_check_lock, scn, failed_updates, last_state_update, upd, cooldown_until, unregistered_descriptors, caps, drying_option, reg, hist, mode, printers, hass_state, supports_mqtt_login, mqtt_is_started, subscribed, connect_jobs, mqtt_task, mqtt_manually_connected, mqtt_idle_since, mqtt_last_action, mqtt_last_refresh, connect_check_lock, refresh_lock, idx, stop_from, ret >>

\* The device command is issued and raises AnycubicAPIError.
HandlerCommandFail ==
    /\ pc["action"] = "command"
    /\ act' = [act EXCEPT !.commanded = TRUE, !.raised = "api"]
    /\ pc' = [pc EXCEPT !["action"] = "idle"]
    /\ UNCHANGED << mqtt_file_list_check_lock, scn, failed_updates, last_state_update, upd, cooldown_until, unregistered_descriptors, caps, drying_option, reg, hist, mode, printers, hass_state, supports_mqtt_login, mqtt_is_started, subscribed, connect_jobs, mqtt_task, mqtt_manually_connected, mqtt_idle_since, mqtt_last_action, mqtt_last_refresh, connect_check_lock, refresh_lock, idx, stop_from, ret >>

\* force_state_update ends the handler.
HandlerForceUpdate ==
    /\ pc["action"] = "force_update"
    /\ act' = [act EXCEPT !.refreshed = TRUE]
    /\ pc' = [pc EXCEPT !["action"] = "idle"]
    /\ UNCHANGED << mqtt_file_list_check_lock, scn, failed_updates, last_state_update, upd, cooldown_until, unregistered_descriptors, caps, drying_option, reg, hist, mode, printers, hass_state, supports_mqtt_login, mqtt_is_started, subscribed, connect_jobs, mqtt_task, mqtt_manually_connected, mqtt_idle_since, mqtt_last_action, mqtt_last_refresh, connect_check_lock, refresh_lock, idx, stop_from, ret >>

HandlerNext ==
    \/ ActionCheck
    \/ Yielded /\ \E h \in Handlers : \E b \in HandlerBranches(h) : HandlerBegin(h, b)
    \/ Yielded /\ HandlerWaitOk
    \/ Yielded /\ HandlerWaitFail
    \/ Yielded /\ HandlerCommandOk
    \/ Yielded /\ HandlerCommandFail
    \/ Yielded /\ HandlerForceUpdate
    \/ Yielded /\ RefreshBegin
    \/ Yielded /\ RefreshRecheck
    \/ Yielded /\ \E f \in Flows : StopUnsubOk(f)
    \/ Yielded /\ \E f \in Flows : StopUnsubFail(f)
    \/ Yielded /\ \E f \in Flows : StopDisconnect(f)
    \/ Yielded /\ \E f \in Flows : StopFinish(f)
    \/ Yielded /\ \E p \in Printers, s \in LifecyclePrinterStates : FleetChange(p, s)
    \/ Yielded /\ ConnectTaskConnects
    \/ Yielded /\ ConnectTaskFails
    \/ Yielded /\ HassStarted
    \/ Yielded /\ HassStopping
    \/ Yielded /\ Tick

HandlerSpec == Init /\ [][HandlerNext]_vars

\* ---------------------------------------------------------------- poll specification

\* Who calls get_anycubic_updates: the periodic _async_update_data, or
\* force_state_update (which clears _last_state_update and refreshes).
Callers == {"tick", "force"}

\* "if not self._last_state_update or int(time.time()) > self._last_state_update + DEFAULT_SCAN_INTERVAL".
UpdateIsDue ==
    last_state_update = None \/ now > last_state_update + DEFAULT_SCAN_INTERVAL

\* Mutant: force_state_update leaves _last_state_update cleared.
LastStateUpdateCleared(caller, t) ==
    IF caller = "force" THEN None ELSE t

\* self._last_state_update when the caller is done: get_anycubic_updates
\* leaves t, and force_state_update then overwrites it.
LastStateUpdateAfter(caller, t) ==
    IF caller = "force" THEN now - DEFAULT_SCAN_INTERVAL + FORCE_UPDATE_OFFSET ELSE t

\* "if self._failed_updates >= MAX_FAILED_UPDATES".
BudgetExhausted == failed_updates >= MAX_FAILED_UPDATES

\* get_anycubic_updates is called, up to its first await: with the budget
\* exhausted it sets the cooldown, resets the count and returns False;
\* otherwise it goes on to the credential validation.
UpdateBegin(caller) ==
    /\ upd.stage \in {"idle", "done"}
    /\ pc["poll"] = "idle"
    /\ caller = "tick" => UpdateIsDue
    /\ IF BudgetExhausted
       THEN /\ last_state_update' = LastStateUpdateAfter(caller, now + FAILED_UPDATE_DELAY)
            /\ failed_updates' = 0
            /\ cooldown_until' = now + FAILED_UPDATE_DELAY
            /\ upd' = [NoUpd EXCEPT !.caller = caller, !.stage = "done", !.raised = "cooldown", !.failed_before = failed_updates]
       ELSE /\ last_state_update' = now
            /\ failed_updates' = failed_updates
            /\ cooldown_until' = cooldown_until
            /\ upd' = [NoUpd EXCEPT !.caller = caller, !.stage = "tokens", !.failed_before = failed_updates]
    /\ UNCHANGED << mqtt_file_list_check_lock, scn, unregistered_descriptors, caps, drying_option, reg, printers, hist, act, mode, hass_state, supports_mqtt_login, mqtt_is_started, subscribed, connect_jobs, mqtt_task, mqtt_manually_connected, mqtt_idle_since, mqtt_last_action, mqtt_last_refresh, connect_check_lock, refresh_lock, pc, idx, stop_from, ret >>

\* _check_or_save_tokens returns: the credentials are valid.
TokensOk ==
    /\ upd.stage = "tokens"
    /\ upd' = [upd EXCEPT !.stage = "polling", !.tokens = "valid"]
    /\ UNCHANGED << mqtt_file_list_check_lock, scn, unregistered_descriptors, caps, drying_option, reg, failed_updates, last_state_update, cooldown_until, printers, hist, act, mode, hass_state, supports_mqtt_login, mqtt_is_started, subscribed, connect_jobs, mqtt_task, mqtt_manually_connected, mqtt_idle_since, mqtt_last_action, mqtt_last_refresh, connect_check_lock, refresh_lock, pc, idx, stop_from, ret >>

\* Mutant: the authentication failure is counted like any other error.
TokensAuthFailCounted ==
    /\ upd.stage = "tokens"
    /\ failed_updates' = failed_updates + 1
    /\ upd' = [upd EXCEPT !.stage = "done", !.tokens = "rejected", !.raised = "update_failed"]
    /\ last_state_update' = LastStateUpdateAfter(upd.caller, last_state_update)
    /\ UNCHANGED << mqtt_file_list_check_lock, scn, cooldown_until, printers, unregistered_descriptors, caps, drying_option, reg, hist, act, mode, hass_state, supports_mqtt_login, mqtt_is_started, subscribed, connect_jobs, mqtt_task, mqtt_manually_connected, mqtt_idle_since, mqtt_last_action, mqtt_last_refresh, connect_check_lock, refresh_lock, pc, idx, stop_from, ret >>

\* check_api_tokens returns False: _check_or_save_tokens raises
\* ConfigEntryAuthFailed, which get_anycubic_updates re-raises.
TokensAuthFail ==
    /\ upd.stage = "tokens"
    /\ failed_updates' = failed_updates
    /\ upd' = [upd EXCEPT !.stage = "done", !.tokens = "rejected", !.raised = "auth"]
    /\ last_state_update' = LastStateUpdateAfter(upd.caller, last_state_update)
    /\ UNCHANGED << mqtt_file_list_check_lock, scn, cooldown_until, printers, unregistered_descriptors, caps, drying_option, reg, hist, act, mode, hass_state, supports_mqtt_login, mqtt_is_started, subscribed, connect_jobs, mqtt_task, mqtt_manually_connected, mqtt_idle_since, mqtt_last_action, mqtt_last_refresh, connect_check_lock, refresh_lock, pc, idx, stop_from, ret >>

\* The credential validation or a device poll raises a recoverable error:
\* the failure is counted and UpdateFailed raised.
PollFail ==
    /\ upd.stage \in {"tokens", "polling"}
    /\ failed_updates' = failed_updates + 1
    /\ upd' = [upd EXCEPT !.stage = "done", !.raised = "update_failed"]
    /\ last_state_update' = LastStateUpdateAfter(upd.caller, last_state_update)
    /\ UNCHANGED << mqtt_file_list_check_lock, scn, cooldown_until, printers, unregistered_descriptors, caps, drying_option, reg, hist, act, mode, hass_state, supports_mqtt_login, mqtt_is_started, subscribed, connect_jobs, mqtt_task, mqtt_manually_connected, mqtt_idle_since, mqtt_last_action, mqtt_last_refresh, connect_check_lock, refresh_lock, pc, idx, stop_from, ret >>

\* printer.update_info_from_api returns for the next device, with its state s.
DevicePollOk(s) ==
    /\ upd.stage = "polling"
    /\ printers' = [printers EXCEPT ![upd.polled + 1] = s]
    /\ upd' = [upd EXCEPT !.polled = @ + 1, !.stage = IF upd.polled + 1 = Cardinality(Printers) THEN "evaluate" ELSE "polling"]
    /\ UNCHANGED << mqtt_file_list_check_lock, scn, unregistered_descriptors, caps, drying_option, reg, failed_updates, last_state_update, cooldown_until, hist, act, mode, hass_state, supports_mqtt_login, mqtt_is_started, subscribed, connect_jobs, mqtt_task, mqtt_manually_connected, mqtt_idle_since, mqtt_last_action, mqtt_last_refresh, connect_check_lock, refresh_lock, pc, idx, stop_from, ret >>

\* All polls succeeded: the count is reset and the connection evaluated.
UpdateEvaluate ==
    /\ upd.stage = "evaluate"
    /\ failed_updates' = 0
    /\ upd' = [upd EXCEPT !.stage = "evaluating", !.evaluated = TRUE]
    /\ Check("poll", FALSE)
    /\ UNCHANGED << mqtt_file_list_check_lock, scn, unregistered_descriptors, caps, drying_option, reg, hist, act, last_state_update, cooldown_until, mode, printers, hass_state, supports_mqtt_login, mqtt_is_started, mqtt_manually_connected, mqtt_last_action, mqtt_last_refresh >>

\* The evaluation has returned: get_anycubic_updates returns True.
UpdateReturn ==
    /\ upd.stage = "evaluating"
    /\ pc["poll"] = "idle"
    /\ upd' = [upd EXCEPT !.stage = "done"]
    /\ last_state_update' = LastStateUpdateAfter(upd.caller, now)
    /\ UNCHANGED << mqtt_file_list_check_lock, scn, unregistered_descriptors, caps, drying_option, reg, failed_updates, cooldown_until, printers, hist, act, mode, hass_state, supports_mqtt_login, mqtt_is_started, subscribed, connect_jobs, mqtt_task, mqtt_manually_connected, mqtt_idle_since, mqtt_last_action, mqtt_last_refresh, connect_check_lock, refresh_lock, pc, idx, stop_from, ret >>

\* The stop sequence run by the evaluation raises in an unsubscribe: the
\* exception leaves _check_anycubic_mqtt_connection and is caught by
\* "except Exception", which counts a failure and raises UpdateFailed.
UpdateStopRaises ==
    /\ upd.stage = "evaluating"
    /\ pc["poll"] = "unsub"
    /\ pc' = [pc EXCEPT !["poll"] = "idle"]
    /\ idx' = [idx EXCEPT !["poll"] = 0]
    /\ stop_from' = [stop_from EXCEPT !["poll"] = "none"]
    /\ connect_check_lock' = IF connect_check_lock = "poll" THEN "free" ELSE connect_check_lock
    /\ failed_updates' = failed_updates + 1
    /\ upd' = [upd EXCEPT !.stage = "done", !.raised = "update_failed"]
    /\ last_state_update' = LastStateUpdateAfter(upd.caller, last_state_update)
    /\ UNCHANGED << mqtt_file_list_check_lock, scn, unregistered_descriptors, caps, drying_option, reg, hist, act, cooldown_until, mode, printers, hass_state, supports_mqtt_login, mqtt_is_started, subscribed, connect_jobs, mqtt_task, mqtt_manually_connected, mqtt_idle_since, mqtt_last_action, mqtt_last_refresh, refresh_lock, ret >>

\* No flow is between two statements that have no suspension between them.
PollYielded ==
    /\ upd.stage # "evaluate"
    /\ ~(upd.stage = "evaluating" /\ pc["poll"] = "idle")

PollNext ==
    \/ UpdateEvaluate
    \/ UpdateReturn
    \/ PollYielded /\ \E caller \in Callers : UpdateBegin(caller)
    \/ PollYielded /\ TokensOk
    \/ PollYielded /\ TokensAuthFail
    \/ PollYielded /\ PollFail
    \/ PollYielded /\ \E s \in LifecyclePrinterStates : DevicePollOk(s)
    \/ PollYielded /\ UpdateStopRaises
    \/ PollYielded /\ StopUnsubOk("poll")
    \/ PollYielded /\ StopDisconnect("poll")
    \/ PollYielded /\ StopFinish("poll")
    \/ PollYielded /\ ConnectTaskConnects
    \/ PollYielded /\ HassStarted
    \/ PollYielded /\ HassStopping
    \/ PollYielded /\ Tick

PollSpec == Init /\ [][PollNext]_vars

\* ---------------------------------------------------------------- scan specification

\* The periodic tick and a handler's force_state_update, whose call of
\* get_anycubic_updates can be in progress while the tick's is.  The host
\* has not finished starting, so the evaluations neither start nor stop
\* the channel, and the devices stay as they are.
\* scn.force is the position of the forced call, scn.forced the time
\* force_state_update last returned.
ScanFlows == Flows \cup {"force"}

\* _async_update_data with the scan interval not elapsed: no call of
\* get_anycubic_updates, the snapshot is built from the stored devices.
UpdateNotDue ==
    /\ upd.stage \in {"idle", "done"}
    /\ ~UpdateIsDue
    /\ upd' = [NoUpd EXCEPT !.caller = "tick", !.stage = "done", !.raised = "not_due", !.failed_before = failed_updates]
    /\ UNCHANGED << scn, failed_updates, last_state_update, cooldown_until, mqtt_file_list_check_lock, unregistered_descriptors, caps, drying_option, reg, printers, hist, act, mode, hass_state, supports_mqtt_login, mqtt_is_started, subscribed, connect_jobs, mqtt_task, mqtt_manually_connected, mqtt_idle_since, mqtt_last_action, mqtt_last_refresh, connect_check_lock, refresh_lock, pc, idx, stop_from, ret >>

\* force_state_update up to the first await of get_anycubic_updates: with
\* the budget exhausted the call sets the cooldown and returns, and
\* force_state_update overwrites _last_state_update and returns.
ForceBegin ==
    /\ scn.force = "idle"
    /\ IF BudgetExhausted
       THEN /\ last_state_update' = LastStateUpdateAfter("force", now + FAILED_UPDATE_DELAY)
            /\ failed_updates' = 0
            /\ cooldown_until' = now + FAILED_UPDATE_DELAY
            /\ scn' = [scn EXCEPT !.forced = now]
       ELSE /\ last_state_update' = now
            /\ scn' = [scn EXCEPT !.force = "polling"]
            /\ UNCHANGED << failed_updates, cooldown_until >>
    /\ UNCHANGED << upd, mqtt_file_list_check_lock, unregistered_descriptors, caps, drying_option, reg, printers, hist, act, mode, hass_state, supports_mqtt_login, mqtt_is_started, subscribed, connect_jobs, mqtt_task, mqtt_manually_connected, mqtt_idle_since, mqtt_last_action, mqtt_last_refresh, connect_check_lock, refresh_lock, pc, idx, stop_from, ret >>

\* A poll call of the forced update raises: the failure is counted, and
\* force_state_update returns.
ForcePollFail ==
    /\ scn.force = "polling"
    /\ failed_updates' = failed_updates + 1
    /\ last_state_update' = LastStateUpdateAfter("force", last_state_update)
    /\ scn' = [scn EXCEPT !.force = "idle", !.forced = now]
    /\ UNCHANGED << upd, cooldown_until, mqtt_file_list_check_lock, unregistered_descriptors, caps, drying_option, reg, printers, hist, act, mode, hass_state, supports_mqtt_login, mqtt_is_started, subscribed, connect_jobs, mqtt_task, mqtt_manually_connected, mqtt_idle_since, mqtt_last_action, mqtt_last_refresh, connect_check_lock, refresh_lock, pc, idx, stop_from, ret >>

\* The poll calls of the forced update succeeded: the count is reset, the
\* connection evaluated, and force_state_update returns.
ForcePollOk ==
    /\ scn.force = "polling"
    /\ failed_updates' = 0
    /\ Check("force", FALSE)
    /\ pc'["force"] = "idle"
    /\ last_state_update' = LastStateUpdateAfter("force", now)
    /\ scn' = [scn EXCEPT !.force = "idle", !.forced = now]
    /\ UNCHANGED << upd, cooldown_until, mqtt_file_list_check_lock, unregistered_descriptors, caps, drying_option, reg, printers, hist, act, mode, hass_state, supports_mqtt_login, mqtt_is_started, mqtt_manually_connected, mqtt_last_action, mqtt_last_refresh >>

\* One second passes.
ScanTick ==
    /\ last_state_update' = Aged(last_state_update, DEFAULT_SCAN_INTERVAL + 1)
    /\ cooldown_until' = Aged(cooldown_until, 0)
    /\ scn' = [scn EXCEPT !.forced = Aged(@, FORCE_UPDATE_OFFSET + 1)]
    /\ UNCHANGED << upd, failed_updates, mqtt_file_list_check_lock, unregistered_descriptors, caps, drying_option, reg, printers, hist, act, mode, hass_state, supports_mqtt_login, mqtt_is_started, subscribed, connect_jobs, mqtt_task, mqtt_manually_connected, mqtt_idle_since, mqtt_last_action, mqtt_last_refresh, connect_check_lock, refresh_lock, pc, idx, stop_from, ret >>

ScanInit ==
    /\ mode = "Printing_Only"
    /\ printers = AllOffline
    /\ hass_state = "starting"
    /\ supports_mqtt_login = TRUE
    /\ mqtt_is_started = FALSE
    /\ subscribed = {}
    /\ connect_jobs = 0
    /\ mqtt_task = "None"
    /\ mqtt_manually_connected = FALSE
    /\ mqtt_idle_since = None
    /\ mqtt_last_action = None
    /\ mqtt_last_refresh = None
    /\ connect_check_lock = "free"
    /\ refresh_lock = "free"
    /\ pc = [f \in ScanFlows |-> "idle"]
    /\ idx = [f \in ScanFlows |-> 0]
    /\ stop_from = [f \in ScanFlows |-> "none"]
    /\ ret = NoRet
    /\ hist = NoHist
    /\ ExtInit

ScanNext ==
    \/ UpdateEvaluate
    \/ UpdateReturn
    \/ PollYielded /\ UpdateBegin("tick")
    \/ PollYielded /\ UpdateNotDue
    \/ PollYielded /\ TokensOk
    \/ PollYielded /\ TokensAuthFail
    \/ PollYielded /\ PollFail
    \/ PollYielded /\ DevicePollOk(AllOffline[1])
    \/ PollYielded /\ ForceBegin
    \/ PollYielded /\ ForcePollFail
    \/ PollYielded /\ ForcePollOk
    \/ PollYielded /\ ScanTick

ScanSpec == ScanInit /\ [][ScanNext]_vars

\* ---------------------------------------------------------------- scenario: devices offline

\* One more stop sequence begun; the count stops at 2.
StopsAfter(entered) ==
    IF entered /\ scn.stops < 2 THEN scn.stops + 1 ELSE scn.stops

\* get_anycubic_updates after the last successful poll: the evaluation,
\* with the stop sequences it begins counted.
OfflineEvaluate ==
    /\ pc["poll"] = "updating"
    /\ Check("poll", FALSE)
    /\ scn' = [scn EXCEPT !.stops = StopsAfter(pc'["poll"] = "unsub")]
    /\ UNCHANGED << mqtt_file_list_check_lock, act, failed_updates, last_state_update, upd, cooldown_until, unregistered_descriptors, caps, drying_option, reg, hist, mode, printers, hass_state, supports_mqtt_login, mqtt_is_started, mqtt_manually_connected, mqtt_last_action, mqtt_last_refresh >>

\* The device model changes; the count starts again when a device is
\* online or busy.
OfflineFleetChange(p, s) ==
    /\ pc["poll"] = "updating" \/ mqtt_is_started
    /\ s # printers[p]
    /\ printers' = [printers EXCEPT ![p] = s]
    /\ scn' = [scn EXCEPT !.stops = IF s.printer_online \/ s.is_busy THEN 0 ELSE @]
    /\ UNCHANGED << mqtt_file_list_check_lock, act, failed_updates, last_state_update, upd, cooldown_until, unregistered_descriptors, caps, drying_option, reg, hist, mode, hass_state, supports_mqtt_login, mqtt_is_started, subscribed, connect_jobs, mqtt_task, mqtt_manually_connected, mqtt_idle_since, mqtt_last_action, mqtt_last_refresh, connect_check_lock, refresh_lock, pc, idx, stop_from, ret >>

\* Mode Device_Online, manual override off, no user action: the host is
\* starting, the devices are offline and the channel is closed.
OfflineInit ==
    /\ mode = "Device_Online"
    /\ printers = AllOffline
    /\ hass_state = "starting"
    /\ supports_mqtt_login = TRUE
    /\ mqtt_is_started = FALSE
    /\ subscribed = {}
    /\ connect_jobs = 0
    /\ mqtt_task = "None"
    /\ mqtt_manually_connected = FALSE
    /\ mqtt_idle_since = None
    /\ mqtt_last_action = None
    /\ mqtt_last_refresh = None
    /\ connect_check_lock = "free"
    /\ refresh_lock = "free"
    /\ pc = [f \in Flows |-> "idle"]
    /\ idx = [f \in Flows |-> 0]
    /\ stop_from = [f \in Flows |-> "none"]
    /\ ret = NoRet
    /\ hist = NoHist
    /\ ExtInit

\* The periodic poll with its evaluation and stop sequence, the devices,
\* the connect job, the host finishing its start, and time.
OfflineNext ==
    \/ PollTick
    \/ OfflineEvaluate
    \/ StopUnsubOk("poll")
    \/ StopUnsubFail("poll")
    \/ StopDisconnect("poll")
    \/ StopFinish("poll")
    \/ \E p \in Printers, s \in LifecyclePrinterStates : OfflineFleetChange(p, s)
    \/ ConnectTaskConnects
    \/ ConnectTaskFails
    \/ HassStarted
    \/ Tick

OfflineSpec == OfflineInit /\ [][OfflineNext]_vars

\* ---------------------------------------------------------------- scenario: grace window

\* An evaluation that reaches its decision is recorded: idle_eval when it
\* runs inside the grace window with the channel started after the device
\* has gone from busy to idle, stale when it runs there with an idle-since
\* that is past the idle threshold.
GraceSeen(decides) ==
    scn' = [scn EXCEPT
              !.idle_eval = @ \/ (decides /\ _check_mqtt_connection_last_action_waiting /\ mqtt_is_started /\ scn.seq = 2),
              !.stale = @ \/ (decides /\ _check_mqtt_connection_last_action_waiting /\ mqtt_is_started /\ mqtt_idle_since # None /\ now > mqtt_idle_since + MQTT_IDLE_DISCONNECT_SECONDS)]

\* _connect_mqtt_for_action_response sets the action timer: a new grace
\* window begins.
GraceActionBegin ==
    /\ pc["action"] = "idle"
    /\ mqtt_last_action' = now
    /\ pc' = [pc EXCEPT !["action"] = "check"]
    /\ scn' = [scn EXCEPT !.seq = 0, !.idle_eval = FALSE, !.stale = FALSE]
    /\ UNCHANGED << mqtt_file_list_check_lock, act, failed_updates, last_state_update, upd, cooldown_until, unregistered_descriptors, caps, drying_option, reg, hist, mode, printers, hass_state, supports_mqtt_login, mqtt_is_started, subscribed, connect_jobs, mqtt_task, mqtt_manually_connected, mqtt_idle_since, mqtt_last_refresh, connect_check_lock, refresh_lock, idx, stop_from, ret >>

\* The evaluation of the user action.
GraceActionCheck ==
    /\ pc["action"] = "check"
    /\ Check("action", FALSE)
    /\ GraceSeen(connect_check_lock = "free")
    /\ UNCHANGED << mqtt_file_list_check_lock, act, failed_updates, last_state_update, upd, cooldown_until, unregistered_descriptors, caps, drying_option, reg, hist, mode, printers, hass_state, supports_mqtt_login, mqtt_is_started, mqtt_manually_connected, mqtt_last_action, mqtt_last_refresh >>

\* The evaluation of the user action leaves the queue of the lock.
GraceWaitCheck ==
    /\ pc["action"] = "wait_check"
    /\ Decide("action")
    /\ GraceSeen(TRUE)
    /\ UNCHANGED << mqtt_file_list_check_lock, act, failed_updates, last_state_update, upd, cooldown_until, unregistered_descriptors, caps, drying_option, reg, hist, mode, printers, hass_state, supports_mqtt_login, mqtt_is_started, mqtt_manually_connected, mqtt_last_action, mqtt_last_refresh >>

\* The evaluation of the periodic poll.
GracePollEvaluate ==
    /\ pc["poll"] = "updating"
    /\ Check("poll", FALSE)
    /\ GraceSeen(connect_check_lock = "free")
    /\ UNCHANGED << mqtt_file_list_check_lock, act, failed_updates, last_state_update, upd, cooldown_until, unregistered_descriptors, caps, drying_option, reg, hist, mode, printers, hass_state, supports_mqtt_login, mqtt_is_started, mqtt_manually_connected, mqtt_last_action, mqtt_last_refresh >>

\* The device model changes; inside the grace window the steps of the
\* sequence busy, idle, busy again are counted.
GraceFleetChange(p, s) ==
    /\ pc["poll"] = "updating" \/ mqtt_is_started
    /\ s # printers[p]
    /\ printers' = [printers EXCEPT ![p] = s]
    /\ scn' = [scn EXCEPT !.seq =
                 IF _check_mqtt_connection_last_action_waiting /\ mqtt_is_started /\ @ < 3
                    /\ ((@ \in {0, 2}) <=> (\E q \in Printers : printers'[q].is_busy))
                 THEN @ + 1 ELSE @]
    /\ UNCHANGED << mqtt_file_list_check_lock, act, failed_updates, last_state_update, upd, cooldown_until, unregistered_descriptors, caps, drying_option, reg, hist, mode, hass_state, supports_mqtt_login, mqtt_is_started, subscribed, connect_jobs, mqtt_task, mqtt_manually_connected, mqtt_idle_since, mqtt_last_action, mqtt_last_refresh, connect_check_lock, refresh_lock, pc, idx, stop_from, ret >>

\* Mode Printing_Only, manual override off: the host is starting, the
\* devices are offline and the channel is closed.
GraceInit ==
    /\ mode = "Printing_Only"
    /\ printers = AllOffline
    /\ hass_state = "starting"
    /\ supports_mqtt_login = TRUE
    /\ mqtt_is_started = FALSE
    /\ subscribed = {}
    /\ connect_jobs = 0
    /\ mqtt_task = "None"
    /\ mqtt_manually_connected = FALSE
    /\ mqtt_idle_since = None
    /\ mqtt_last_action = None
    /\ mqtt_last_refresh = None
    /\ connect_check_lock = "free"
    /\ refresh_lock = "free"
    /\ pc = [f \in Flows |-> "idle"]
    /\ idx = [f \in Flows |-> 0]
    /\ stop_from = [f \in Flows |-> "none"]
    /\ ret = NoRet
    /\ hist = NoHist
    /\ ExtInit

\* User actions and periodic polls with their evaluations and stop
\* sequences, the devices, the connect job, the host finishing its start,
\* and time.
GraceNext ==
    \/ GraceActionCheck
    \/ Yielded /\ GraceActionBegin
    \/ Yielded /\ GraceWaitCheck
    \/ Yielded /\ ActionWaitDone
    \/ Yielded /\ PollTick
    \/ Yielded /\ GracePollEvaluate
    \/ Yielded /\ StopUnsubOk("poll")
    \/ Yielded /\ StopUnsubFail("poll")
    \/ Yielded /\ StopDisconnect("poll")
    \/ Yielded /\ StopFinish("poll")
    \/ Yielded /\ \E p \in Printers, s \in LifecyclePrinterStates : GraceFleetChange(p, s)
    \/ Yielded /\ ConnectTaskConnects
    \/ Yielded /\ ConnectTaskFails
    \/ Yielded /\ HassStarted
    \/ Yielded /\ Tick

GraceSpec == GraceInit /\ [][GraceNext]_vars

\* ---------------------------------------------------------------- lock specification

\* The flows of the event loop with the file-list recheck task.
AllFlows == Flows \cup {"recheck"}

\* The callers of refresh_anycubic_mqtt_connection: the button handler
\* and the file-list recheck.
RefreshCallers == {"refresh", "recheck"}

\* Where the caller continues when refresh_anycubic_mqtt_connection returns.
AfterRefreshPc(r) == IF r = "recheck" THEN "recheck_wait" ELSE "idle"

\* "async with self._mqtt_refresh_lock" and the statements up to the first
\* await of the stop sequence.
RefreshEnter(r) ==
    /\ refresh_lock' = r
    /\ mqtt_last_refresh' = now
    /\ EnterStop(r, "refresh")

\* refresh_anycubic_mqtt_connection from its call to its first suspension:
\* it returns, queues on the refresh lock, or enters the stop sequence.
RefreshCallBody(r) ==
    IF RefreshRuns
    THEN IF refresh_lock = "free"
         THEN RefreshEnter(r)
         ELSE /\ pc' = [pc EXCEPT ![r] = "wait_refresh"]
              /\ UNCHANGED << refresh_lock, mqtt_last_refresh, idx, stop_from >>
    ELSE /\ pc' = [pc EXCEPT ![r] = AfterRefreshPc(r)]
         /\ UNCHANGED << refresh_lock, mqtt_last_refresh, idx, stop_from >>

\* The button handler calls refresh_anycubic_mqtt_connection.
RefreshCall ==
    /\ pc["refresh"] = "idle"
    /\ RefreshCallBody("refresh")
    /\ UNCHANGED << mqtt_file_list_check_lock, scn, act, failed_updates, last_state_update, upd, cooldown_until, unregistered_descriptors, caps, drying_option, reg, hist, mode, printers, hass_state, supports_mqtt_login, mqtt_is_started, subscribed, connect_jobs, mqtt_task, mqtt_manually_connected, mqtt_idle_since, mqtt_last_action, connect_check_lock, ret >>

\* A refresh queued on the refresh lock acquires it.
RefreshAcquire(r) ==
    /\ pc[r] = "wait_refresh"
    /\ refresh_lock = "free"
    /\ RefreshEnter(r)
    /\ UNCHANGED << mqtt_file_list_check_lock, scn, act, failed_updates, last_state_update, upd, cooldown_until, unregistered_descriptors, caps, drying_option, reg, hist, mode, printers, hass_state, supports_mqtt_login, mqtt_is_started, subscribed, connect_jobs, mqtt_task, mqtt_manually_connected, mqtt_idle_since, mqtt_last_action, connect_check_lock, ret >>

\* asyncio.sleep(2) returns and the refresh of caller r re-evaluates.
RefreshReevaluate(r) ==
    /\ pc[r] = "sleep"
    /\ Check(r, TRUE)
    /\ UNCHANGED << mqtt_file_list_check_lock, scn, act, failed_updates, last_state_update, upd, cooldown_until, unregistered_descriptors, caps, drying_option, reg, hist, mode, printers, hass_state, supports_mqtt_login, mqtt_is_started, mqtt_manually_connected, mqtt_last_action, mqtt_last_refresh >>

\* The task _async_check_local_file_list_changed of device p starts: with
\* the lock held it returns at once (the request is dropped), with the
\* device offline it returns inside the lock, otherwise it holds the lock
\* and sleeps.
RecheckRequest(p) ==
    /\ IF mqtt_file_list_check_lock # 0
       THEN /\ scn' = [scn EXCEPT !.dropped = << p, mqtt_file_list_check_lock >>]
            /\ UNCHANGED << mqtt_file_list_check_lock, pc >>
       ELSE /\ pc["recheck"] = "idle"
            /\ scn' = scn
            /\ IF printers[p].printer_online
               THEN /\ mqtt_file_list_check_lock' = p
                    /\ pc' = [pc EXCEPT !["recheck"] = "recheck_sleep"]
               ELSE UNCHANGED << mqtt_file_list_check_lock, pc >>
    /\ UNCHANGED << act, failed_updates, last_state_update, upd, cooldown_until, unregistered_descriptors, caps, drying_option, reg, hist, mode, printers, hass_state, supports_mqtt_login, mqtt_is_started, subscribed, connect_jobs, mqtt_task, mqtt_manually_connected, mqtt_idle_since, mqtt_last_action, mqtt_last_refresh, connect_check_lock, refresh_lock, idx, stop_from, ret >>

\* asyncio.sleep(5) returns: with a file list present the task is done,
\* with both lists empty it calls refresh_anycubic_mqtt_connection.
RecheckSleepDone(empty) ==
    /\ pc["recheck"] = "recheck_sleep"
    /\ IF empty
       THEN /\ RefreshCallBody("recheck")
            /\ UNCHANGED mqtt_file_list_check_lock
       ELSE /\ mqtt_file_list_check_lock' = 0
            /\ pc' = [pc EXCEPT !["recheck"] = "idle"]
            /\ UNCHANGED << refresh_lock, mqtt_last_refresh, idx, stop_from >>
    /\ UNCHANGED << scn, act, failed_updates, last_state_update, upd, cooldown_until, unregistered_descriptors, caps, drying_option, reg, hist, mode, printers, hass_state, supports_mqtt_login, mqtt_is_started, subscribed, connect_jobs, mqtt_task, mqtt_manually_connected, mqtt_idle_since, mqtt_last_action, connect_check_lock, ret >>

\* mqtt_wait_for_connect and asyncio.sleep(2) return.
RecheckWaitDone ==
    /\ pc["recheck"] = "recheck_wait"
    /\ pc' = [pc EXCEPT !["recheck"] = "recheck_request"]
    /\ UNCHANGED << mqtt_file_list_check_lock, scn, act, failed_updates, last_state_update, upd, cooldown_until, unregistered_descriptors, caps, drying_option, reg, hist, mode, printers, hass_state, supports_mqtt_login, mqtt_is_started, subscribed, connect_jobs, mqtt_task, mqtt_manually_connected, mqtt_idle_since, mqtt_last_action, mqtt_last_refresh, connect_check_lock, refresh_lock, idx, stop_from, ret >>

\* request_local_file_list returns or raises: the task leaves the lock.
RecheckRequestDone ==
    /\ pc["recheck"] = "recheck_request"
    /\ pc' = [pc EXCEPT !["recheck"] = "idle"]
    /\ mqtt_file_list_check_lock' = 0
    /\ UNCHANGED << scn, act, failed_updates, last_state_update, upd, cooldown_until, unregistered_descriptors, caps, drying_option, reg, hist, mode, printers, hass_state, supports_mqtt_login, mqtt_is_started, subscribed, connect_jobs, mqtt_task, mqtt_manually_connected, mqtt_idle_since, mqtt_last_action, mqtt_last_refresh, connect_check_lock, refresh_lock, idx, stop_from, ret >>

\* An unsubscribe of the recheck's refresh raises: the exception leaves the
\* refresh lock and the file-list recheck lock.
RecheckStopUnsubFail ==
    /\ pc["recheck"] = "unsub"
    /\ pc' = [pc EXCEPT !["recheck"] = "idle"]
    /\ idx' = [idx EXCEPT !["recheck"] = 0]
    /\ stop_from' = [stop_from EXCEPT !["recheck"] = "none"]
    /\ connect_check_lock' = IF connect_check_lock = "recheck" THEN "free" ELSE connect_check_lock
    /\ refresh_lock' = IF refresh_lock = "recheck" THEN "free" ELSE refresh_lock
    /\ mqtt_file_list_check_lock' = 0
    /\ UNCHANGED << scn, act, failed_updates, last_state_update, upd, cooldown_until, unregistered_descriptors, caps, drying_option, reg, hist, mode, printers, hass_state, supports_mqtt_login, mqtt_is_started, subscribed, connect_jobs, mqtt_task, mqtt_manually_connected, mqtt_idle_since, mqtt_last_action, mqtt_last_refresh, ret >>

\* The device model changes: every device goes online, or every device
\* goes offline.
LockFleetChange(online) ==
    /\ pc["poll"] = "updating" \/ mqtt_is_started
    /\ printers' = [p \in Printers |-> [is_busy |-> FALSE, printer_online |-> online, is_drying |-> FALSE, print_in_progress |-> FALSE]]
    /\ printers' # printers
    /\ UNCHANGED << ext, hist, mode, hass_state, supports_mqtt_login, mqtt_is_started, subscribed, connect_jobs, mqtt_task, mqtt_manually_connected, mqtt_idle_since, mqtt_last_action, mqtt_last_refresh, connect_check_lock, refresh_lock, pc, idx, stop_from, ret >>

\* Mode Device_Online with the host running: the devices are offline and
\* the channel is closed.
LockInit ==
    /\ mode = "Device_Online"
    /\ printers = AllOffline
    /\ hass_state = "running"
    /\ supports_mqtt_login = TRUE
    /\ mqtt_is_started = FALSE
    /\ subscribed = {}
    /\ connect_jobs = 0
    /\ mqtt_task = "None"
    /\ mqtt_manually_connected = FALSE
    /\ mqtt_idle_since = None
    /\ mqtt_last_action = None
    /\ mqtt_last_refresh = None
    /\ connect_check_lock = "free"
    /\ refresh_lock = "free"
    /\ pc = [f \in AllFlows |-> "idle"]
    /\ idx = [f \in AllFlows |-> 0]
    /\ stop_from = [f \in AllFlows |-> "none"]
    /\ ret = NoRet
    /\ hist = NoHist
    /\ ExtInit

LockNext ==
    \/ Yielded /\ PollTick
    \/ Yielded /\ PollUpdated
    \/ Yielded /\ RefreshCall
    \/ Yielded /\ \E r \in RefreshCallers : RefreshAcquire(r)
    \/ Yielded /\ \E r \in RefreshCallers : RefreshReevaluate(r)
    \/ Yielded /\ \E p \in Printers : RecheckRequest(p)
    \/ Yielded /\ \E empty \in BOOLEAN : RecheckSleepDone(empty)
    \/ Yielded /\ RecheckWaitDone
    \/ Yielded /\ RecheckRequestDone
    \/ Yielded /\ RecheckStopUnsubFail
    \/ Yielded /\ \E f \in AllFlows : WaitCheck(f)
    \/ Yielded /\ \E f \in AllFlows : StopUnsubOk(f)
    \/ Yielded /\ \E f \in Flows : StopUnsubFail(f)
    \/ Yielded /\ \E f \in AllFlows : StopDisconnect(f)
    \/ Yielded /\ \E f \in AllFlows : StopFinish(f)
    \/ Yielded /\ \E online \in BOOLEAN : LockFleetChange(online)
    \/ Yielded /\ ConnectTaskConnects
    \/ Yielded /\ ConnectTaskFails
    \/ Yielded /\ Tick

LockSpec == LockInit /\ [][LockNext]_vars

\* ---------------------------------------------------------------- fair lock specification

\* The flows that take the locks: the poll's evaluation, the button
\* handler's refresh and the file-list recheck task.
LockFlows == {"poll", "refresh", "recheck"}

AllOnline == [p \in Printers |-> [is_busy |-> FALSE, printer_online |-> TRUE, is_drying |-> FALSE, print_in_progress |-> FALSE]]

\* Mode Device_Online with the devices online: every evaluation of the
\* running host starts the channel, every evaluation of the stopping host
\* stops it.
FairLockInit ==
    /\ mode = "Device_Online"
    /\ printers = AllOnline
    /\ hass_state = "running"
    /\ supports_mqtt_login = TRUE
    /\ mqtt_is_started = FALSE
    /\ subscribed = {}
    /\ connect_jobs = 0
    /\ mqtt_task = "None"
    /\ mqtt_manually_connected = FALSE
    /\ mqtt_idle_since = None
    /\ mqtt_last_action = None
    /\ mqtt_last_refresh = None
    /\ connect_check_lock = "free"
    /\ refresh_lock = "free"
    /\ pc = [f \in AllFlows |-> "idle"]
    /\ idx = [f \in AllFlows |-> 0]
    /\ stop_from = [f \in AllFlows |-> "none"]
    /\ ret = NoRet
    /\ hist = NoHist
    /\ ExtInit

FairLockNext ==
    \/ PollTick
    \/ PollUpdated
    \/ RefreshCall
    \/ \E r \in RefreshCallers : RefreshAcquire(r)
    \/ \E r \in RefreshCallers : RefreshReevaluate(r)
    \/ \E p \in Printers : RecheckRequest(p)
    \/ \E empty \in BOOLEAN : RecheckSleepDone(empty)
    \/ RecheckWaitDone
    \/ RecheckRequestDone
    \/ RecheckStopUnsubFail
    \/ \E f \in LockFlows : WaitCheck(f)
    \/ \E f \in LockFlows : StopUnsubOk(f)
    \/ \E f \in LockFlows \ {"recheck"} : StopUnsubFail(f)
    \/ \E f \in LockFlows : StopDisconnect(f)
    \/ \E f \in LockFlows : StopFinish(f)
    \/ ConnectTaskConnects
    \/ HassStopping
    \/ Tick

\* Every collaborator call and every sleep returns (or raises), so a flow
\* that is not waiting for a lock takes its next step; asyncio.Lock wakes
\* its waiters in order, so a flow waiting for a lock that is released
\* again and again acquires it.
LockFairness ==
    /\ WF_vars(PollUpdated)
    /\ \A r \in RefreshCallers : SF_vars(RefreshAcquire(r))
    /\ \A r \in RefreshCallers : WF_vars(RefreshReevaluate(r))
    /\ WF_vars(\E empty \in BOOLEAN : RecheckSleepDone(empty))
    /\ WF_vars(RecheckWaitDone)
    /\ WF_vars(RecheckRequestDone)
    /\ \A f \in LockFlows : SF_vars(WaitCheck(f))
    /\ \A f \in LockFlows : WF_vars(StopUnsubOk(f) \/ StopDisconnect(f) \/ StopFinish(f))

FairLockSpec == FairLockInit /\ [][FairLockNext]_vars /\ LockFairness

\* ---------------------------------------------------------------- unload specification

\* The periodic poll and the unload of the config entry, which calls
\* stop_anycubic_mqtt_connection_if_started.
UnloadFlows == {"poll", "unload"}

UnloadNext ==
    \/ Yielded /\ PollTick
    \/ Yielded /\ PollUpdated
    \/ Yielded /\ UnloadBegin
    \/ Yielded /\ \E f \in UnloadFlows : StopUnsubOk(f)
    \/ Yielded /\ \E f \in UnloadFlows : StopUnsubFail(f)
    \/ Yielded /\ \E f \in UnloadFlows : StopDisconnect(f)
    \/ Yielded /\ \E f \in UnloadFlows : StopFinish(f)
    \/ Yielded /\ \E online \in BOOLEAN : LockFleetChange(online)
    \/ Yielded /\ ConnectTaskConnects
    \/ Yielded /\ ConnectTaskFails
    \/ Yielded /\ Tick

UnloadSpec == LockInit /\ [][UnloadNext]_vars

\* ---------------------------------------------------------------- registration specification

\* What a descriptor needs of the device: nothing, a material type, the
\* ACE (primary or secondary unit), the drying presets; descriptor 6 has
\* no printer_entity_type.
Kind(d) ==
    CASE d = 1 -> "plain"
      [] d = 2 -> "lcd"
      [] d = 3 -> "ace_primary"
      [] d = 4 -> "ace_secondary"
      [] d = 5 -> "drying"
      [] OTHER -> "untyped"

\* The lists of descriptors a platform offers.
DescriptorLists == { << 1, 2, 3, 4, 5 >>, << 1, 3, 6 >> }

\* The elements of the list s.
Range(s) ==
    {s[i] : i \in DOMAIN s}

\* The checks of one descriptor against the snapshot c, in the order of
\* the code: dropped for good, deferred, ConfigEntryError, or promoted.
Verdict(d, c) ==
    IF \/ (Kind(d) = "lcd" /\ c.material_type # "LCD")
       \/ (Kind(d) \in {"ace_primary", "ace_secondary", "drying"} /\ ~c.supports_ace)
    THEN "drop"
    ELSE IF \/ (Kind(d) = "ace_primary" /\ c.connected_ace_units < 1)
            \/ (Kind(d) = "ace_secondary" /\ c.connected_ace_units < 2)
            \/ (Kind(d) = "drying" /\ (c.connected_ace_units < 1 \/ ~drying_option))
    THEN "defer"
    ELSE IF Kind(d) = "untyped" THEN "raise"
    ELSE "allow"

\* The map m has descriptors pending for device p and platform pf.
HasEntry(m, p, pf) ==
    p \in DOMAIN m /\ pf \in DOMAIN m[p]

\* The evaluation of platform pf over the map m raises at device p: no
\* status attributes, or a promotable descriptor without entity type.
PrinterRaises(m, p, pf) ==
    /\ HasEntry(m, p, pf)
    /\ \/ ~caps[p].status_known
       \/ \E d \in Range(m[p][pf]) : Verdict(d, caps[p]) = "raise"

Raises(m, pf) ==
    \E p \in Printers : PrinterRaises(m, p, pf)

\* The loop reaches the end of device p's iteration.
Processed(m, p, pf) ==
    /\ HasEntry(m, p, pf)
    /\ \A q \in Printers : q <= p => ~PrinterRaises(m, q, pf)

\* Mutant: promoted descriptors stay in the pending list.
RemainingWithPromoted(m, p, pf) ==
    SelectSeq(m[p][pf], LAMBDA d : Verdict(d, caps[p]) \in {"defer", "allow"})

\* remaining_unregistered_descriptors of device p.
Remaining(m, p, pf) ==
    SelectSeq(m[p][pf], LAMBDA d : Verdict(d, caps[p]) = "defer")

\* Mutant: deferred descriptors are instantiated as well.
PromotedWithDeferred(m, p, pf) ==
    SelectSeq(m[p][pf], LAMBDA d : Verdict(d, caps[p]) \in {"defer", "allow"})

\* The new entities of device p.
Promoted(m, p, pf) ==
    SelectSeq(m[p][pf], LAMBDA d : Verdict(d, caps[p]) = "allow")

\* Mutant: a platform whose list became empty stays in the map.
PlatformsNeverPopped(m, p, pf) ==
    DOMAIN m[p]

\* The platforms of device p left in the map after its iteration.
PlatformsAfter(m, p, pf) ==
    IF Len(Remaining(m, p, pf)) > 0 THEN DOMAIN m[p] ELSE DOMAIN m[p] \ {pf}

\* self._unregistered_descriptors after
\* _add_entities_for_unregistered_descriptors for platform pf ran over m.
MapAfter(m, pf) ==
    [p \in {q \in DOMAIN m : ~Processed(m, q, pf) \/ PlatformsAfter(m, q, pf) # {}} |->
        IF Processed(m, p, pf)
        THEN [x \in PlatformsAfter(m, p, pf) |-> IF x = pf THEN Remaining(m, p, pf) ELSE m[p][x]]
        ELSE m[p]]

\* What async_add_entities receives: nothing when the evaluation raised.
Delivery(m, pf) ==
    IF Raises(m, pf) THEN {}
    ELSE {<<p, pf, d>> : p \in {q \in Printers : HasEntry(m, q, pf)}, d \in Descriptors} \cap {k \in Printers \X Platforms \X Descriptors : HasEntry(m, k[1], pf) /\ k[3] \in Range(Promoted(m, k[1], pf))}

\* The evaluation of platform pf over the map m, and its record.
Evaluate(m, pf, rerun) ==
    /\ unregistered_descriptors' = MapAfter(m, pf)
    /\ reg' = [reg EXCEPT
                 !.listening = IF ~rerun /\ ~Raises(m, pf) THEN @ \cup {pf} ELSE @,
                 !.failed = IF ~rerun /\ Raises(m, pf) THEN @ \cup {pf} ELSE @,
                 !.delivered = @ \cup Delivery(m, pf),
                 !.twice = @ \cup (reg.delivered \cap Delivery(m, pf)),
                 !.fresh = @ \cup {pf},
                 !.last = [platform |-> pf, rerun |-> rerun /\ pf \in reg.fresh, promoted |-> Cardinality(Delivery(m, pf)), changed |-> MapAfter(m, pf) # m, raised |-> Raises(m, pf)]]

\* dict m with m[p][pf] = ds for every device of the entry.
MapWith(m, pf, ds) ==
    [p \in Printers |-> [x \in (IF p \in DOMAIN m THEN DOMAIN m[p] ELSE {}) \cup {pf} |-> IF x = pf THEN ds ELSE m[p][x]]]

\* A platform's async_setup_entry calls add_entities_for_seen_printers:
\* the descriptors are stored for every device and evaluated; the listener
\* is registered when the evaluation returns.
AddEntitiesForSeenPrinters(pf, ds) ==
    /\ pf \notin reg.listening \cup reg.failed
    /\ Evaluate(MapWith(unregistered_descriptors, pf, ds), pf, FALSE)
    /\ UNCHANGED << mqtt_file_list_check_lock, scn, caps, drying_option, act, failed_updates, last_state_update, upd, cooldown_until, hist, mode, printers, hass_state, supports_mqtt_login, mqtt_is_started, subscribed, connect_jobs, mqtt_task, mqtt_manually_connected, mqtt_idle_since, mqtt_last_action, mqtt_last_refresh, connect_check_lock, refresh_lock, pc, idx, stop_from, ret >>

\* A data refresh calls the listener of platform pf.
ListenerRuns(pf) ==
    /\ pf \in reg.listening
    /\ Evaluate(unregistered_descriptors, pf, TRUE)
    /\ UNCHANGED << mqtt_file_list_check_lock, scn, caps, drying_option, act, failed_updates, last_state_update, upd, cooldown_until, hist, mode, printers, hass_state, supports_mqtt_login, mqtt_is_started, subscribed, connect_jobs, mqtt_task, mqtt_manually_connected, mqtt_idle_since, mqtt_last_action, mqtt_last_refresh, connect_check_lock, refresh_lock, pc, idx, stop_from, ret >>

\* The capabilities of device p change (a poll or a push message).
CapabilityChange(p, c) ==
    /\ c # caps[p]
    /\ caps' = [caps EXCEPT ![p] = c]
    /\ reg' = [reg EXCEPT !.fresh = {}]
    /\ UNCHANGED << mqtt_file_list_check_lock, scn, unregistered_descriptors, drying_option, act, failed_updates, last_state_update, upd, cooldown_until, hist, mode, printers, hass_state, supports_mqtt_login, mqtt_is_started, subscribed, connect_jobs, mqtt_task, mqtt_manually_connected, mqtt_idle_since, mqtt_last_action, mqtt_last_refresh, connect_check_lock, refresh_lock, pc, idx, stop_from, ret >>

RegInit ==
    /\ mode = "Printing_Only"
    /\ printers = AllOffline
    /\ hass_state = "starting"
    /\ supports_mqtt_login = TRUE
    /\ mqtt_is_started = FALSE
    /\ subscribed = {}
    /\ connect_jobs = 0
    /\ mqtt_task = "None"
    /\ mqtt_manually_connected = FALSE
    /\ mqtt_idle_since = None
    /\ mqtt_last_action = None
    /\ mqtt_last_refresh = None
    /\ connect_check_lock = "free"
    /\ refresh_lock = "free"
    /\ pc = [f \in Flows |-> "idle"]
    /\ idx = [f \in Flows |-> 0]
    /\ stop_from = [f \in Flows |-> "none"]
    /\ ret = NoRet
    /\ hist = NoHist
    /\ act = NoAct
    /\ failed_updates = 0
    /\ last_state_update = None
    /\ upd = NoUpd
    /\ cooldown_until = None
    /\ unregistered_descriptors = EmptyMap
    /\ caps = NoCaps
    /\ drying_option \in BOOLEAN
    /\ reg = NoReg
    /\ scn = NoScn
    /\ mqtt_file_list_check_lock = 0

RegNext ==
    \/ \E pf \in Platforms, ds \in DescriptorLists : AddEntitiesForSeenPrinters(pf, ds)
    \/ \E pf \in Platforms : ListenerRuns(pf)
    \/ \E p \in Printers : \E c \in CapabilitySnapshots(p) : CapabilityChange(p, c)

RegSpec == RegInit /\ [][RegNext]_vars

\* ---------------------------------------------------------------- properties: policy

\* The statements' own reading of the inputs, written without the
\* coordinator's helper functions.
WithinGrace ==
    mqtt_last_action # None /\ now - mqtt_last_action < MQTT_ACTION_RESPONSE_ALIVE_SECONDS

ModePredicate ==
    CASE mode = "Printing_Only" -> \E p \in Printers : printers[p].is_busy
      [] mode = "Printing_Drying" -> \E p \in Printers : printers[p].is_busy \/ printers[p].is_drying
      [] mode = "Device_Online" -> \E p \in Printers : printers[p].printer_online \/ printers[p].is_busy
      [] mode = "Always" -> TRUE
      [] OTHER -> FALSE

HostReady ==
    hass_state = "running"

\* C1: in mode Never_Connect should_start() is false in every state the
\* coordinator reaches, whatever the fleet, the manual override, the action
\* timer and the host state are; no evaluation registers a device, no
\* connect task is ever spawned and the channel never opens.
C1_NeverConnectIsAbsolute ==
    mode = "Never_Connect" =>
        /\ ~_anycubic_mqtt_connection_should_start
        /\ ret.val = FALSE
        /\ mqtt_task = "None"
        /\ connect_jobs = 0
        /\ ~mqtt_is_started
        /\ subscribed = {}

\* C1 witness: Never_Connect with the manual override set, a device busy,
\* the host running and a user action just evaluated: still closed.
C1_Witness ==
    /\ mode = "Never_Connect"
    /\ mqtt_manually_connected
    /\ \E p \in Printers : printers[p].is_busy
    /\ hass_state = "running"
    /\ supports_mqtt_login
    /\ mqtt_last_action = now
    /\ pc["action"] = "wait_connect"
    /\ ret.fn = "closed"

\* C2 (as stated): for every mode but Never_Connect, should_start() is true
\* exactly when the channel is not started, the host is not stopping and is
\* running, and the action timer is within the grace window or the mode's
\* activity predicate holds or the manual override is set.
C2_ShouldStartAsStated ==
    (ret.fn = "should_start" /\ mode # "Never_Connect") =>
        (ret.val <=> /\ ~mqtt_is_started
                     /\ hass_state # "stopping"
                     /\ HostReady
                     /\ (WithinGrace \/ ModePredicate \/ mqtt_manually_connected))

\* C2 (amended): the same, and only when the account supports the MQTT
\* login; without that support should_start() is false in every mode.
C2_ShouldStartExactly ==
    ret.fn = "should_start" =>
        (ret.val <=> /\ mode # "Never_Connect"
                     /\ supports_mqtt_login
                     /\ ~mqtt_is_started
                     /\ hass_state # "stopping"
                     /\ HostReady
                     /\ (WithinGrace \/ ModePredicate \/ mqtt_manually_connected))

\* C2 witness: Printing_Drying starts on a drying device alone.
C2_Witness ==
    /\ ret = [fn |-> "should_start", val |-> TRUE]
    /\ mode = "Printing_Drying"
    /\ ~mqtt_manually_connected
    /\ ~WithinGrace
    /\ \A p \in Printers : ~printers[p].is_busy
    /\ \E p \in Printers : printers[p].is_drying

ActivityModes == {"Printing_Only", "Printing_Drying", "Device_Online"}

\* C3 (as stated): in the modes Printing_Only, Printing_Drying and
\* Device_Online should_start() is true if and only if the mode's activity
\* predicate holds over the fleet, after any earlier calls.
C3_StartIffActivityAsStated ==
    (ret.fn = "should_start" /\ mode \in ActivityModes) =>
        (ret.val <=> ModePredicate)

\* C3 (amended): in those modes, with the channel not started, the host
\* running, the MQTT login supported, no action within the grace window and
\* the manual override off, should_start() is true if and only if the
\* mode's activity predicate holds over the fleet, after any earlier calls
\* of the evaluation functions.
C3_StartIffActivity ==
    (/\ ret.fn = "should_start"
     /\ mode \in ActivityModes
     /\ ~mqtt_is_started
     /\ HostReady
     /\ supports_mqtt_login
     /\ ~WithinGrace
     /\ ~mqtt_manually_connected) =>
        (ret.val <=> ModePredicate)

\* C3 witness: Device_Online starts on a device that is busy although it
\* does not report online.
C3_Witness ==
    /\ ret = [fn |-> "should_start", val |-> TRUE]
    /\ mode = "Device_Online"
    /\ ~WithinGrace
    /\ ~mqtt_manually_connected
    /\ \A p \in Printers : ~printers[p].printer_online
    /\ \E p \in Printers : printers[p].is_busy

\* C4 (as stated): inside the grace window should_stop() and the
\* idle-eligibility predicate both return false, whatever the other inputs
\* are.
C4_GraceForcesFalseAsStated ==
    (WithinGrace /\ ret.fn \in {"should_stop", "modes_inactive"}) => ~ret.val

\* C4 (amended): inside the grace window the idle-eligibility predicate
\* returns false, and should_stop() returns false unless the host is
\* shutting down with the channel started, when it returns true.
C4_GraceForcesFalse ==
    WithinGrace =>
        /\ ret.fn = "modes_inactive" => ~ret.val
        /\ ret.fn = "should_stop" => (ret.val <=> (mqtt_is_started /\ hass_state = "stopping"))

\* C4 witness: should_stop() answered false inside the grace window for a
\* started channel in Printing_Only with nothing printing and an idle-since
\* that had been set.
C4_Witness ==
    /\ ret = [fn |-> "should_stop", val |-> FALSE]
    /\ WithinGrace
    /\ mqtt_is_started
    /\ hass_state = "running"
    /\ ~mqtt_manually_connected
    /\ mode = "Printing_Only"
    /\ \A p \in Printers : ~printers[p].is_busy /\ ~printers[p].print_in_progress

\* C8 (as stated): with the grace window elapsed the idle-eligibility
\* predicate is false in mode Always, true in mode Never_Connect, and in
\* Printing_Only true exactly when no device is busy and none has a job in
\* progress.
C8_IdleEligibleAsStated ==
    (ret.fn = "modes_inactive" /\ ~WithinGrace) =>
        /\ mode = "Always" => ~ret.val
        /\ mode = "Never_Connect" => ret.val
        /\ mode = "Printing_Only" => (ret.val <=> \A p \in Printers : ~printers[p].is_busy /\ ~printers[p].print_in_progress)

\* C8 (amended): with the grace window elapsed the idle-eligibility
\* predicate is false in mode Always and false in mode Never_Connect, and
\* in Printing_Only true exactly when no device is busy and none has a job
\* in progress.
C8_IdleEligible ==
    (ret.fn = "modes_inactive" /\ ~WithinGrace) =>
        /\ mode = "Always" => ~ret.val
        /\ mode = "Never_Connect" => ~ret.val
        /\ mode = "Printing_Only" => (ret.val <=> \A p \in Printers : ~printers[p].is_busy /\ ~printers[p].print_in_progress)

\* C8 witness: Printing_Only is not idle-eligible with a job in progress on
\* a device that is not busy.
C8_Witness ==
    /\ ret = [fn |-> "modes_inactive", val |-> FALSE]
    /\ ~WithinGrace
    /\ mode = "Printing_Only"
    /\ \A p \in Printers : ~printers[p].is_busy
    /\ \E p \in Printers : printers[p].print_in_progress

\* C32: for every mode, fleet state and action-timer value the activity
\* predicate and the idle-eligibility predicate are never both true,
\* whichever of them was called last, and an evaluation that has grounds to
\* start (activity or the manual override) does not touch idle-since.
C32_ActiveAndIdleEligibleExclusive ==
    /\ ~(_check_mqtt_connection_modes_active /\ _check_mqtt_connection_modes_inactive)
    /\ (ret.fn = "modes_active" /\ ret.val) => ~_check_mqtt_connection_modes_inactive
    /\ (ret.fn = "modes_inactive" /\ ret.val) => ~_check_mqtt_connection_modes_active
    /\ _anycubic_mqtt_connection_should_start => ShouldStopIdleSince = mqtt_idle_since

\* C32 witness: in Printing_Drying, with the grace window elapsed, no
\* device printing and one drying, the activity predicate returned true
\* and the idle-eligibility predicate is false.
C32_Witness ==
    /\ ret = [fn |-> "modes_active", val |-> TRUE]
    /\ ~WithinGrace
    /\ mode = "Printing_Drying"
    /\ \A p \in Printers : ~printers[p].is_busy /\ ~printers[p].print_in_progress
    /\ \E p \in Printers : printers[p].is_drying
    /\ ~_check_mqtt_connection_modes_inactive

\* ---------------------------------------------------------------- properties: idle tracker

\* C6 (as stated): while every two consecutive idle-eligible observations
\* are less than the idle threshold apart, the idle tracker never returns
\* "close now".
C6_CloseSpacedNeverFiresAsStated ==
    hist.close => ~hist.fired

\* C6 (amended): the idle tracker never returns "close now" at an
\* observation made no more than the idle threshold after the first
\* idle-eligible observation of the uninterrupted run; however closely the
\* observations are spaced, an idle-eligible observation returns "close
\* now" exactly when it is made more than the threshold after the
\* observation that set idle-since (the first of the run, or the first
\* after the previous "close now").
C6_NoFireWithinThreshold ==
    /\ hist.fired => (hist.first # None /\ now - hist.first > MQTT_IDLE_DISCONNECT_SECONDS)
    /\ hist.prev = now => (hist.fired <=> now - hist.since > MQTT_IDLE_DISCONNECT_SECONDS)

\* C6 witness: an eligible observation exactly the threshold after the
\* run's first one, following closely spaced ones, that did not fire.
C6_Witness ==
    /\ hist.first # None
    /\ now - hist.first = MQTT_IDLE_DISCONNECT_SECONDS
    /\ hist.prev = now
    /\ hist.close
    /\ ~hist.fired
    /\ hist.fires = 0

\* C7 (as stated): an uninterrupted idle-eligible run returns "close now"
\* at most once.
C7_FiresOnceAsStated ==
    hist.fires <= 1

\* C7 (amended): when the idle tracker returns "close now" it clears
\* idle-since, and more than the idle threshold has passed since the first
\* idle-eligible observation that followed the previous "close now" (or
\* began the run): within one uninterrupted run, also with the channel kept
\* open by the manual override, it returns "close now" again, with no
\* non-eligible observation in between, once a fresh interval longer than
\* the threshold has accumulated.
C7_FiresAfterFreshInterval ==
    hist.fired =>
        /\ mqtt_idle_since = None
        /\ hist.since # None
        /\ now - hist.since > MQTT_IDLE_DISCONNECT_SECONDS

\* C7 witness: the second "close now" of one uninterrupted run, observed
\* through should_stop() with the channel started and the manual override
\* set.
C7_Witness ==
    /\ hist.fired
    /\ hist.fires = 2
    /\ ret = [fn |-> "should_stop", val |-> FALSE]
    /\ mqtt_is_started
    /\ mqtt_manually_connected

\* ---------------------------------------------------------------- properties: life cycle

\* This step is flow f's evaluation reaching the decision inside the
\* connection-evaluate lock (it is neither skipped for a refresh nor queued).
EvalDecides(f) ==
    /\ pc[f] \in {"updating", "check", "sleep", "wait_check"}
    /\ pc'[f] # pc[f]
    /\ pc'[f] # "wait_check"
    /\ connect_check_lock = "free"
    /\ (f = "refresh" \/ pc[f] = "wait_check" \/ refresh_lock = "free")

\* Sustained idleness past the threshold is detected by this evaluation.
SustainedIdleDetected ==
    /\ _check_mqtt_connection_modes_inactive
    /\ mqtt_idle_since # None
    /\ now - mqtt_idle_since > MQTT_IDLE_DISCONNECT_SECONDS

\* C5: an evaluation that reaches the decision executes the stop sequence
\* exactly when the channel is started and the host is shutting down or
\* sustained idleness past the threshold is detected with the manual
\* override off.  So no evaluation stops the channel while the override is
\* set and the host is not shutting down, and an evaluation with the host
\* shutting down and the channel started stops it even with the override set.
C5_StopExactlyWhen ==
    [][\A f \in EvalFlows :
         EvalDecides(f) =>
            ((pc'[f] = "unsub") <=>
                (mqtt_is_started /\ (hass_state = "stopping" \/ (SustainedIdleDetected /\ ~mqtt_manually_connected))))]_vars

\* C5 witness: a poll- or action-triggered evaluation is executing the stop
\* sequence with the host shutting down and the manual override set.
C5_Witness ==
    \E f \in {"poll", "action"} :
        /\ pc[f] \in StopPcs
        /\ stop_from[f] = "check"
        /\ hass_state = "stopping"
        /\ mqtt_manually_connected

\* C9 (as stated): an evaluation that decides while the channel is Starting
\* or Open spawns no task and makes no device-registration call.
C9_EvaluationIsNoOpAsStated ==
    [][\A f \in EvalFlows :
         (EvalDecides(f) /\ Phase \in {"starting", "open"}) =>
            (mqtt_task' = mqtt_task /\ connect_jobs' = connect_jobs /\ ~ret'.val)]_vars

\* C9 (amended): at most one connect job is outstanding at any time, and an
\* evaluation that decides while the channel is Starting or Open spawns no
\* task; while Open it makes no device-registration call; while Starting it
\* repeats the registration of every device whenever should_start() holds.
C9_NeverDoubleStarts ==
    /\ [](connect_jobs <= 1)
    /\ [][\A f \in EvalFlows :
            (EvalDecides(f) /\ Phase \in {"starting", "open"}) =>
               /\ mqtt_task' = mqtt_task
               /\ connect_jobs' = connect_jobs
               /\ Phase = "open" => (~ret'.val /\ subscribed' = subscribed)
               /\ Phase = "starting" => (ret'.val <=> _anycubic_mqtt_connection_should_start)]_vars

\* C9 witness: an evaluation decided while Starting and registered the
\* devices again; one connect job is outstanding.
C9_Witness ==
    /\ ret = [fn |-> "starting", val |-> TRUE]
    /\ mqtt_task = "pending"
    /\ ~mqtt_is_started
    /\ connect_jobs = 1

\* C10: in the stop sequence the unsubscribe loop always goes on, to the
\* next device or to the disconnect request, also when unsubscribing a
\* device fails: the flow stays in the stop sequence until its end.
C10_UnsubscribeFailureDoesNotAbort ==
    [][\A f \in Flows : pc[f] = "unsub" => pc'[f] \in StopPcs]_vars

\* ---------------------------------------------------------------- properties: handlers

\* C11: a handler whose branch needs the channel has set the action timer
\* to now when its evaluation runs; when the wait for the connection
\* reports failure the handler raises the timeout error, and from then on
\* that call has issued no device command and run no forced state refresh;
\* a device command is issued only after a wait that reported success.
C11_FailedWaitIssuesNoCommand ==
    /\ pc["action"] = "check" => (mqtt_last_action = now /\ act.branch = "channel")
    /\ act.waited = "fail" => (act.raised = "timeout" /\ ~act.commanded /\ ~act.refreshed /\ pc["action"] = "idle")
    /\ act.commanded => act.waited = "ok"
    /\ (act.refreshed /\ act.branch = "channel") => (act.waited = "ok" /\ act.commanded)

\* C11 witness: a button press timed out waiting for the connection.
C11_Witness ==
    /\ act.handler = "button_press_event"
    /\ act.waited = "fail"
    /\ act.raised = "timeout"
    /\ ret.val
    /\ mqtt_task = "pending"

\* ---------------------------------------------------------------- properties: failed connect

\* C12: once the connect job has ended without the channel having started,
\* the next evaluation that decides with should_start() true spawns a new
\* connect job.
C12_FailedConnectIsRetried ==
    [][\A f \in EvalFlows :
         (EvalDecides(f) /\ Phase = "failed" /\ _anycubic_mqtt_connection_should_start) =>
            (mqtt_task' = "pending" /\ connect_jobs' = connect_jobs + 1)]_vars

\* ---------------------------------------------------------------- properties: poll

\* The cooldown last entered has not elapsed.
InCooldown ==
    cooldown_until # None /\ now < cooldown_until

\* This step issues the first poll call (the credential validation) of a
\* call of get_anycubic_updates.
PollIssued ==
    upd.stage \in {"idle", "done"} /\ upd'.stage = "tokens"

\* C13: the call of get_anycubic_updates that finds MAX_FAILED_UPDATES
\* failures enters the cooldown and resets the count; until the cooldown
\* has elapsed no poll call is issued, whether _async_update_data or
\* force_state_update is the caller.
C13_NoPollDuringCooldown ==
    [][/\ InCooldown => ~PollIssued
       /\ (upd' # upd /\ upd'.raised = "cooldown") => (failed_updates = MAX_FAILED_UPDATES /\ failed_updates' = 0)]_vars

\* C14: a call of get_anycubic_updates in which the credential validation
\* and every device poll succeeded ends with the failure count at zero.
C14_SuccessfulPollLeavesZero ==
    (upd.stage = "done" /\ upd.polled = Cardinality(Printers)) => failed_updates = 0

\* C15: when the credential validation fails the authentication, the call
\* ends with the authentication error, the failure count is what it was
\* before the call, no device has been polled and the connection has not
\* been evaluated.
C15_AuthFailureBypassesBudget ==
    /\ upd.tokens = "rejected" =>
        /\ upd.stage = "done"
        /\ upd.raised = "auth"
        /\ failed_updates = upd.failed_before
        /\ upd.polled = 0
        /\ ~upd.evaluated
    /\ upd.polled = 0 => ~upd.evaluated

\* C15 witness: an authentication failure in a periodic tick that followed
\* one counted failure.
C15_Witness ==
    /\ upd.caller = "tick"
    /\ upd.tokens = "rejected"
    /\ upd.raised = "auth"
    /\ upd.failed_before = 1
    /\ failed_updates = 1

\* ---------------------------------------------------------------- properties: registration

\* C16: over the initial call, the listener runs and every change of the
\* device capabilities, no descriptor of a (device, platform) is passed to
\* async_add_entities more than once, and no descriptor that was passed is
\* still in the pending map.
C16_DeliveredAtMostOnce ==
    /\ reg.twice = {}
    /\ \A k \in reg.delivered :
           ~(HasEntry(unregistered_descriptors, k[1], k[2]) /\ k[3] \in Range(unregistered_descriptors[k[1]][k[2]]))

\* A descriptor that was deferred has been delivered, others of its device
\* are still pending, and the listener has run again since.
C16_Witness ==
    /\ <<1, "sensor", 3>> \in reg.delivered
    /\ HasEntry(unregistered_descriptors, 1, "sensor")
    /\ 4 \in Range(unregistered_descriptors[1]["sensor"])
    /\ reg.last.platform = "sensor"
    /\ reg.last.rerun
    /\ reg.last.promoted = 0

\* C17: an evaluation of a platform that runs again on the capabilities and
\* options of its previous run promotes nothing and leaves the pending map
\* as it found it.
C17_RerunIsIdempotent ==
    reg.last.rerun => (reg.last.promoted = 0 /\ ~reg.last.changed)

\* The second run happened with descriptors delivered by the first and
\* others still deferred.
C17_Witness ==
    /\ reg.last.rerun
    /\ ~reg.last.raised
    /\ \E k \in reg.delivered : k[2] = reg.last.platform
    /\ \E p \in Printers : HasEntry(unregistered_descriptors, p, reg.last.platform)

\* The statement's own reading of the three outcomes and of the error.
DropHolds(d, c) ==
    \/ (Kind(d) = "lcd" /\ c.material_type # "LCD")
    \/ (Kind(d) \in {"ace_primary", "ace_secondary", "drying"} /\ ~c.supports_ace)

DeferHolds(d, c) ==
    \/ (Kind(d) = "ace_primary" /\ c.connected_ace_units < 1)
    \/ (Kind(d) = "ace_secondary" /\ c.connected_ace_units < 2)
    \/ (Kind(d) = "drying" /\ (c.connected_ace_units < 1 \/ ~drying_option))

OutcomeOf(d, c) ==
    IF DropHolds(d, c) THEN "dropped"
    ELSE IF DeferHolds(d, c) THEN "deferred"
    ELSE IF Kind(d) = "untyped" THEN "error"
    ELSE "promoted"

\* The evaluation of platform pf over the map m gets through the
\* iteration of device p: no device up to p lacks its status attributes or
\* has a descriptor that ends in the error.
IterationCompletes(m, p, pf) ==
    \A q \in Printers :
        (q <= p /\ HasEntry(m, q, pf)) =>
            (caps[q].status_known /\ \A d \in Range(m[q][pf]) : OutcomeOf(d, caps[q]) # "error")

\* The pending list of (p, pf) after the step, empty when the map has none.
PendingAfter(p, pf) ==
    IF HasEntry(unregistered_descriptors', p, pf) THEN unregistered_descriptors'[p][pf] ELSE << >>

\* After the step the pending list of (p, pf) is the deferred descriptors
\* of the list in m in their order, an empty list has left the map, and
\* device p has left the map with its last platform.
OnlyDeferredPending(m, p, pf) ==
    /\ PendingAfter(p, pf) = SelectSeq(m[p][pf], LAMBDA d : OutcomeOf(d, caps[p]) = "deferred")
    /\ HasEntry(unregistered_descriptors', p, pf) <=> Len(PendingAfter(p, pf)) > 0
    /\ p \in DOMAIN unregistered_descriptors' => DOMAIN unregistered_descriptors'[p] # {}

\* The descriptors the step passed to async_add_entities for (p, pf) are
\* the promoted ones of the list in m.
OnlyPromotedDelivered(m, p, pf) ==
    \A d \in Range(m[p][pf]) :
        (<< p, pf, d >> \in reg'.delivered) <=> (OutcomeOf(d, caps[p]) = "promoted")

\* The statement of C23 as written: whatever the evaluation of pf over m
\* meets, every device with pending descriptors ends with exactly the
\* deferred ones pending and the promoted ones delivered.
EveryDescriptorSettled(m, pf) ==
    \A p \in Printers :
        HasEntry(m, p, pf) => (OnlyDeferredPending(m, p, pf) /\ OnlyPromotedDelivered(m, p, pf))

\* C23 as written: every pending descriptor of an evaluation is dropped,
\* deferred or promoted, and afterwards exactly the deferred ones are
\* pending.
C23_EveryDescriptorDroppedDeferredOrPromoted ==
    [][/\ \A pf \in Platforms : ListenerRuns(pf) => EveryDescriptorSettled(unregistered_descriptors, pf)
       /\ \A pf \in Platforms, ds \in DescriptorLists :
              AddEntitiesForSeenPrinters(pf, ds) => EveryDescriptorSettled(MapWith(unregistered_descriptors, pf, ds), pf)]_vars

\* The amended statement for the evaluation of pf over m: a device whose
\* iteration completes ends with exactly its deferred descriptors pending,
\* in their order, a drop taking precedence over a defer; its promoted
\* descriptors are the ones delivered when the evaluation returns; a
\* device at or after the error keeps its pending list.
OutcomesInOrder(m, pf) ==
    \A p \in Printers :
        HasEntry(m, p, pf) =>
            IF IterationCompletes(m, p, pf)
            THEN /\ OnlyDeferredPending(m, p, pf)
                 /\ (\A q \in Printers : IterationCompletes(m, q, pf)) => OnlyPromotedDelivered(m, p, pf)
            ELSE /\ PendingAfter(p, pf) = m[p][pf]
                 /\ \A d \in Range(m[p][pf]) : << p, pf, d >> \notin reg'.delivered

\* C23 (amended): in one registration evaluation the descriptors of a
\* (device, platform) are decided in the order drop, defer, error, promote;
\* every device the evaluation gets through keeps exactly its deferred
\* descriptors, in their original order, and leaves the map when nothing
\* is deferred; an evaluation that raises leaves the lists of the devices
\* it did not get through as they were.
C23_OutcomesInFixedOrder ==
    [][/\ \A pf \in Platforms : ListenerRuns(pf) => OutcomesInOrder(unregistered_descriptors, pf)
       /\ \A pf \in Platforms, ds \in DescriptorLists :
              AddEntitiesForSeenPrinters(pf, ds) => OutcomesInOrder(MapWith(unregistered_descriptors, pf, ds), pf)]_vars

\* An evaluation of the sensors returned: device 2, without ACE support and
\* with no unit connected, had its ACE descriptors dropped (drop and defer
\* both held) and left the map; device 1 keeps two deferred descriptors in
\* their order, with one promoted.
C23_Witness ==
    /\ reg.last.platform = "sensor"
    /\ ~reg.last.raised
    /\ caps[2] = Snapshot(TRUE, "FDM", FALSE, 0)
    /\ 2 \notin DOMAIN unregistered_descriptors
    /\ << 2, "sensor", 1 >> \in reg.delivered
    /\ << 2, "sensor", 3 >> \notin reg.delivered
    /\ caps[1] = Snapshot(TRUE, "FDM", TRUE, 1)
    /\ HasEntry(unregistered_descriptors, 1, "sensor")
    /\ unregistered_descriptors[1]["sensor"] = << 4, 5 >>
    /\ << 1, "sensor", 3 >> \in reg.delivered

\* In the evaluation of platform pf over the map m, a promoted descriptor
\* that has left the pending list was passed to async_add_entities by this
\* evaluation, and a descriptor that has left the pending list was dropped
\* as unsupported or passed on.
NoPromotionLost(m, pf) ==
    \A p \in Printers :
        HasEntry(m, p, pf) =>
            \A d \in Range(m[p][pf]) :
                d \notin Range(PendingAfter(p, pf)) =>
                    /\ OutcomeOf(d, caps[p]) = "promoted" => << p, pf, d >> \in reg'.delivered \ reg.delivered
                    /\ DropHolds(d, caps[p]) \/ << p, pf, d >> \in reg'.delivered \ reg.delivered

\* C31: no promotion is lost: every descriptor an evaluation removes from
\* the pending map because it is instantiable is delivered by that
\* evaluation, also when the evaluation raises for a later descriptor or
\* device, and after an error every descriptor that was neither dropped nor
\* delivered is still pending.
C31_NoPromotionLost ==
    [][/\ \A pf \in Platforms : ListenerRuns(pf) => NoPromotionLost(unregistered_descriptors, pf)
       /\ \A pf \in Platforms, ds \in DescriptorLists :
              AddEntitiesForSeenPrinters(pf, ds) => NoPromotionLost(MapWith(unregistered_descriptors, pf, ds), pf)]_vars

\* ---------------------------------------------------------------- properties: scenarios

\* C18: in mode Device_Online with the manual override off and no user
\* action, while the devices stay offline and not busy the periodic
\* evaluations begin at most one stop sequence, and once it has been left
\* the channel is not started and the task handle is cleared.
C18_ExactlyOneStopEndsClosed ==
    /\ scn.stops <= 1
    /\ (scn.stops = 1 /\ pc["poll"] \notin StopPcs) => (~mqtt_is_started /\ mqtt_task = "None")

\* C20: a refresh and an evaluation called by a poll or by a user action
\* never overlap: no state has the refresh inside its refresh lock while
\* such an evaluation is inside the connection-evaluate lock, and no
\* refresh enters its stop sequence while such an evaluation holds that
\* lock or is queued on it.
C20_RefreshAndEvaluationNeverOverlap ==
    [][/\ ~(refresh_lock' = "refresh" /\ connect_check_lock' \in {"poll", "action"})
       /\ (pc["refresh"] = "idle" /\ pc'["refresh"] = "unsub") =>
              \A f \in {"poll", "action"} : connect_check_lock # f /\ pc[f] # "wait_check"]_vars

C21_RefreshReevaluatesBeforeRelease ==
    [][(refresh_lock = "refresh" /\ refresh_lock' = "free") =>
          \/ pc["refresh"] \in {"sleep", "wait_check"}
          \/ (pc["refresh"] = "wait_disconnect" /\ stop_from["refresh"] = "check")]_vars

\* C22: a refresh runs its stop / settle / re-evaluate sequence only when
\* no other refresh is in progress: a request made while another refresh
\* holds the refresh lock never starts a sequence of its own afterwards.
C22_NoSecondRefreshSequence ==
    [][\A r \in RefreshCallers :
          (refresh_lock # r /\ refresh_lock' = r) => pc[r] # "wait_refresh"]_vars

\* ---------------------------------------------------------------- properties: file-list recheck

\* C26: a file-list recheck request is dropped only because a recheck of
\* the same device is in progress: a request for another device is not
\* dropped because of it.
C26_DroppedOnlyForSameDevice ==
    scn.dropped[1] # 0 => scn.dropped[1] = scn.dropped[2]

\* ---------------------------------------------------------------- properties: idle-since

\* C24: in every reachable state idle-since is non-null only if the
\* idle-eligibility predicate of the active mode holds in that state
\* (states inside a handler's synchronous part, which no other flow can
\* observe, are left out).
C24_IdleSinceOnlyWhileEligible ==
    (Yielded /\ mqtt_idle_since # None) => _check_mqtt_connection_modes_inactive

\* The locks are nested in the order file-list recheck, refresh,
\* connection-evaluate: the recheck task holds the refresh lock only inside
\* the file-list lock and the connection-evaluate lock only inside the
\* refresh lock, and no flow waits for the refresh lock while it holds the
\* connection-evaluate lock.
LockOrderKept ==
    /\ refresh_lock = "recheck" => mqtt_file_list_check_lock # 0
    /\ connect_check_lock = "recheck" => refresh_lock = "recheck"
    /\ \A f \in LockFlows : pc[f] = "wait_refresh" => connect_check_lock # f

\* C28: the three locks cannot deadlock: they are nested in one order, no
\* flow waits for the connection-evaluate or the refresh lock forever, and
\* every lock that is held is released again, also when an unsubscribe in
\* the guarded body raises.
C28_NoLockWaitsForever ==
    /\ []LockOrderKept
    /\ \A f \in LockFlows : (pc[f] = "wait_check") ~> (pc[f] # "wait_check")
    /\ \A r \in RefreshCallers : (pc[r] = "wait_refresh") ~> (pc[r] # "wait_refresh")
    /\ (connect_check_lock # "free") ~> (connect_check_lock = "free")
    /\ (refresh_lock # "free") ~> (refresh_lock = "free")
    /\ (mqtt_file_list_check_lock # 0) ~> (mqtt_file_list_check_lock = 0)

\* The recheck task holds the file-list lock and the refresh lock and
\* waits for the connection-evaluate lock, which another flow holds.
C28_Witness ==
    /\ pc["recheck"] = "wait_check"
    /\ mqtt_file_list_check_lock # 0
    /\ refresh_lock = "recheck"
    /\ connect_check_lock \in {"poll", "refresh"}

\* C29: an idle-since recorded before the channel was last stopped is not
\* there to justify a later stop: idle-since is null whenever the channel
\* is not started.
C29_NoIdleSinceWhileClosed ==
    (Yielded /\ ~mqtt_is_started) => mqtt_idle_since = None

\* ---------------------------------------------------------------- properties: serialization

\* C25: a flow inside the stop sequence holds the connection-evaluate lock
\* or the refresh lock, the stop of
\* stop_anycubic_mqtt_connection_if_started included.
C25_StopHoldsALock ==
    \A f \in UnloadFlows :
        pc[f] \in StopPcs => (connect_check_lock = f \/ refresh_lock = f)

\* ---------------------------------------------------------------- properties: scan interval

\* C27: a periodic tick issues poll calls only if no poll has been
\* recorded or more than DEFAULT_SCAN_INTERVAL seconds have passed since
\* the recorded time, and not before FORCE_UPDATE_OFFSET seconds have
\* passed since force_state_update last returned; a tick that does not
\* poll returns its snapshot and changes neither the failure count, the
\* recorded time, nor the connection state.
C27_TickRespectsScanInterval ==
    [][/\ PollIssued => (last_state_update = None \/ now - last_state_update > DEFAULT_SCAN_INTERVAL)
       /\ PollIssued => (scn.forced = None \/ now - scn.forced >= FORCE_UPDATE_OFFSET)
       /\ (upd' # upd /\ upd'.raised = "not_due") =>
              /\ upd'.stage = "done"
              /\ UNCHANGED << failed_updates, last_state_update, cooldown_until >>
              /\ UNCHANGED << mqtt_is_started, subscribed, connect_jobs, mqtt_task, mqtt_idle_since, connect_check_lock, refresh_lock, pc >>]_vars

\* A tick right after a forced update that failed: it did not poll, and
\* the failure count is the one the forced update left.
C27_Witness ==
    /\ upd.caller = "tick"
    /\ upd.raised = "not_due"
    /\ scn.force = "idle"
    /\ scn.forced # None
    /\ now - scn.forced < FORCE_UPDATE_OFFSET
    /\ failed_updates = 1
    /\ upd.failed_before = 1

\* C30: the failure count never exceeds MAX_FAILED_UPDATES, also when a
\* forced update runs get_anycubic_updates while the tick's call is in
\* progress.
C30_FailedUpdatesWithinBudget ==
    failed_updates >= 0 /\ failed_updates <= MAX_FAILED_UPDATES

====
